---- MODULE Spec2Model ----
(***************************************************************************)
(* Isomorph DSL front end: the hand-written lexer, the recursive-descent   *)
(* parser and the static semantic analyzer, as state machines.             *)
(*                                                                         *)
(* Text is a sequence of one-character strings, positions are 0-based as   *)
(* in the source (source[pos] is s[pos + 1]).                              *)
(***************************************************************************)
EXTENDS Integers, Sequences, FiniteSets, TLC

VARIABLES
  phase,      \* which stage is running: "lex", "parse", "analyze", "done"
  source,     \* lex: the source text
  pos,        \* lex: scan position
  line,       \* lex: current line (1-based)
  lineStart,  \* lex: position of the first character of the current line
  tokens,     \* lex: tokens emitted so far; the parser's input
  errors,     \* lex: LexError list
  ppos,       \* parser: index of the current token (0-based)
  perrors,    \* parser: ParseError list
  pstack,     \* parser: the loops in progress, innermost last
  result,     \* parse(): { program, errors }
  program,    \* analyze: its argument
  diagIdx,    \* analyze: index of the diagram being analysed
  astep,      \* analyze: the pass of analyzeDiagram that ran last
  semErrors,  \* analyze: SemanticError list
  iomDiagrams,\* analyze: the IOMDiagrams returned so far
  entities,   \* analyzeDiagram: the entity Map, in insertion order
  entitySpans,\* analyzeDiagram: declaration place of each entity
  relations,  \* analyzeDiagram: IOMRelation list
  packages,   \* analyzeDiagram: IOMPackage list
  notes,      \* analyzeDiagram: IOMNote list
  calls,      \* the calls in progress: the one running is in the variables above
  dropped     \* App: the entity dropped on the canvas and where, if one was

lexVars   == <<source, pos, line, lineStart, tokens, errors>>
parseVars == <<ppos, perrors, pstack, result>>
anVars    == <<program, diagIdx, astep, semErrors, iomDiagrams, entities, entitySpans,
               relations, packages, notes>>
vars      == <<phase, lexVars, parseVars, anVars, calls, dropped>>

\* a single call: nothing is suspended
OneCall == [stage |-> 0, inputs |-> <<>>, alone |-> <<>>, running |-> 1,
            suspended |-> <<>>, overlapped |-> FALSE]

(***************************************************************************)
(* Bounds of the checked input families.                                   *)
(***************************************************************************)
MaxPieces  == 2   \* most pieces of a source put together from OpPieces
MaxTextLen == 3   \* longest source drawn over TextChars
MaxHex     == 7   \* longest run of hex digits after '#'
MaxStall   == 2   \* iterations allowed beyond one per source character
MaxTail    == 3   \* longest free token tail handed to the parser
MaxParseErrors == 6  \* parse errors after which the loops are cut
MaxItems   == 3   \* longest diagram body handed to the analyzer
MaxKindItems == 2   \* items of a diagram whose kind varies
MaxWalkDepth == 8   \* calls of hasCircularInheritance on one path before the walk is cut

(***************************************************************************)
(* Character classes (the regular expressions of the lexer).               *)
(***************************************************************************)
Digits   == {"0","1","2","3","4","5","6","7","8","9"}
Lower    == {"a","b","c","d","e","f","g","h","i","j","k","l","m",
             "n","o","p","q","r","s","t","u","v","w","x","y","z"}
Upper    == {"A","B","C","D","E","F","G","H","I","J","K","L","M",
             "N","O","P","Q","R","S","T","U","V","W","X","Y","Z"}
IsDigit(c)      == c \in Digits                              \* /[0-9]/
IsNumberChar(c) == c \in Digits \cup {"."}                   \* /[0-9.]/
IsIdentStart(c) == c \in Lower \cup Upper \cup {"_"}         \* /[a-zA-Z_]/
IsIdentChar(c)  == c \in Lower \cup Upper \cup Digits \cup {"_"}
IsHex(c)        == c \in Digits \cup {"a","b","c","d","e","f","A","B","C","D","E","F"}

KeywordName ==
  { [text |-> <<"d","i","a","g","r","a","m">>, name |-> "diagram"],
    [text |-> <<"c","l","a","s","s">>, name |-> "class"],
    [text |-> <<"i","n","t","e","r","f","a","c","e">>, name |-> "interface"],
    [text |-> <<"e","n","u","m">>, name |-> "enum"],
    [text |-> <<"a","b","s","t","r","a","c","t">>, name |-> "abstract"],
    [text |-> <<"p","a","c","k","a","g","e">>, name |-> "package"],
    [text |-> <<"i","m","p","o","r","t">>, name |-> "import"],
    [text |-> <<"n","o","t","e">>, name |-> "note"],
    [text |-> <<"s","t","y","l","e">>, name |-> "style"],
    [text |-> <<"o","n">>, name |-> "on"],
    [text |-> <<"e","x","t","e","n","d","s">>, name |-> "extends"],
    [text |-> <<"i","m","p","l","e","m","e","n","t","s">>, name |-> "implements"],
    [text |-> <<"a","t">>, name |-> "at"],
    [text |-> <<"s","t","a","t","i","c">>, name |-> "static"],
    [text |-> <<"f","i","n","a","l">>, name |-> "final"],
    [text |-> <<"v","o","i","d">>, name |-> "void"],
    [text |-> <<"f","o","r">>, name |-> "for"],
    [text |-> <<"a","c","t","o","r">>, name |-> "actor"],
    [text |-> <<"u","s","e","c","a","s","e">>, name |-> "usecase"],
    [text |-> <<"c","o","m","p","o","n","e","n","t">>, name |-> "component"],
    [text |-> <<"n","o","d","e">>, name |-> "node"],
    [text |-> <<"s","e","q","u","e","n","c","e">>, name |-> "sequence"],
    [text |-> <<"f","l","o","w">>, name |-> "flow"],
    [text |-> <<"d","e","p","l","o","y","m","e","n","t">>, name |-> "deployment"],
    [text |-> <<"l","i","s","t">>, name |-> "list"],
    [text |-> <<"m","a","p">>, name |-> "map"],
    [text |-> <<"s","e","t">>, name |-> "set"],
    [text |-> <<"o","p","t","i","o","n","a","l">>, name |-> "optional"],
    [text |-> <<"i","n","t">>, name |-> "int"],
    [text |-> <<"f","l","o","a","t">>, name |-> "float"],
    [text |-> <<"b","o","o","l">>, name |-> "bool"],
    [text |-> <<"s","t","r","i","n","g">>, name |-> "string"] }

KEYWORDS == { k.text : k \in KeywordName }

\* KEYWORD_MAP: the kind of a keyword is its text, except string -> string_t
KeywordKind(value) ==
  LET n == (CHOOSE k \in KeywordName : k.text = value).name
  IN  IF n = "string" THEN "string_t" ELSE n

(***************************************************************************)
(* peek / source[pos]                                                      *)
(***************************************************************************)
\* peek(offset) at position p: source[p] ?? ''
CharAt(s, p) == IF p >= 0 /\ p < Len(s) THEN s[p + 1] ELSE ""

\* source.slice(a, b)
Slice(s, a, b) ==
  LET lo == IF a < Len(s) THEN a ELSE Len(s)
      hi == IF b < Len(s) THEN b ELSE Len(s)
  IN  IF hi <= lo THEN <<>> ELSE SubSeq(s, lo + 1, hi)

\* rest.startsWith(lit) where rest = source.slice(p)
StartsWith(s, p, lit) == Slice(s, p, p + Len(lit)) = lit

makeToken(kind, value, start, end, startLine, startCol) ==
  [kind |-> kind, value |-> value, start |-> start, end |-> end,
   line |-> startLine, col |-> startCol]

(***************************************************************************)
(* skipWhitespaceAndComments: the scanner state [pos, line, lineStart]     *)
(* after the loop.                                                         *)
(***************************************************************************)
RECURSIVE SkipLineComment(_, _)
SkipLineComment(s, p) ==
  IF p < Len(s) /\ CharAt(s, p) # "\n" THEN SkipLineComment(s, p + 1) ELSE p

RECURSIVE SkipBlockComment(_, _, _, _)
SkipBlockComment(s, p, ln, ls) ==
  IF p < Len(s)
  THEN LET ln2 == IF CharAt(s, p) = "\n" THEN ln + 1 ELSE ln
           ls2 == IF CharAt(s, p) = "\n" THEN p + 1 ELSE ls
       IN  IF CharAt(s, p) = "*" /\ CharAt(s, p + 1) = "/"
           THEN [pos |-> p + 2, line |-> ln2, lineStart |-> ls2]
           ELSE SkipBlockComment(s, p + 1, ln2, ls2)
  ELSE [pos |-> p, line |-> ln, lineStart |-> ls]

RECURSIVE skipWhitespaceAndComments(_, _, _, _)
skipWhitespaceAndComments(s, p, ln, ls) ==
  IF p < Len(s)
  THEN LET c == CharAt(s, p) IN
       CASE c = "\n" -> skipWhitespaceAndComments(s, p + 1, ln + 1, p + 1)
         [] c = "\r" -> skipWhitespaceAndComments(s, p + 1, ln, ls)
         [] c \in {" ", "\t"} -> skipWhitespaceAndComments(s, p + 1, ln, ls)
         [] c = "/" /\ CharAt(s, p + 1) = "/" ->
              skipWhitespaceAndComments(s, SkipLineComment(s, p), ln, ls)
         [] c = "/" /\ CharAt(s, p + 1) = "*" ->
              LET r == SkipBlockComment(s, p + 2, ln, ls)
              IN  skipWhitespaceAndComments(s, r.pos, r.line, r.lineStart)
         [] OTHER -> [pos |-> p, line |-> ln, lineStart |-> ls]
  ELSE [pos |-> p, line |-> ln, lineStart |-> ls]

(***************************************************************************)
(* The readers: each returns the position after the token and its value.   *)
(***************************************************************************)
\* what `value += source[pos]` appends when pos is past the end
UndefinedText == <<"u","n","d","e","f","i","n","e","d">>

RECURSIVE ReadStringBody(_, _, _)
ReadStringBody(s, p, value) ==
  IF p < Len(s) /\ CharAt(s, p) # "\""
  THEN IF CharAt(s, p) = "\\"
       THEN LET q  == p + 1                       \* advance() past the backslash
                ch == IF q < Len(s) THEN <<s[q + 1]>> ELSE UndefinedText
                v  == CASE ch = <<"n">> -> <<"\n">>
                        [] ch = <<"t">> -> <<"\t">>
                        [] OTHER -> ch
            IN  ReadStringBody(s, q + 1, value \o v)
       ELSE ReadStringBody(s, p + 1, Append(value, CharAt(s, p)))
  ELSE [pos |-> IF p < Len(s) THEN p + 1 ELSE p, value |-> value]

readString(s, p) == ReadStringBody(s, p + 1, <<>>)

RECURSIVE readNumber(_, _)
readNumber(s, p) ==
  IF p < Len(s) /\ IsNumberChar(CharAt(s, p))
  THEN LET r == readNumber(s, p + 1)
       IN  [pos |-> r.pos, value |-> <<CharAt(s, p)>> \o r.value]
  ELSE [pos |-> p, value |-> <<>>]

RECURSIVE ReadIdentBody(_, _)
ReadIdentBody(s, p) ==
  IF p < Len(s) /\ IsIdentChar(CharAt(s, p))
  THEN LET r == ReadIdentBody(s, p + 1)
       IN  [pos |-> r.pos, value |-> <<CharAt(s, p)>> \o r.value]
  ELSE [pos |-> p, value |-> <<>>]

readIdent(s, p) ==
  LET r == ReadIdentBody(s, p)
  IN  [pos |-> r.pos, value |-> r.value,
       kind |-> IF r.value \in KEYWORDS THEN KeywordKind(r.value) ELSE "IDENT"]

\* the probe of readColor: how many of the (at most six) characters after '#'
\* are hex digits, counted from the first
RECURSIVE HexRun(_, _, _)
HexRun(s, p, i) ==
  IF i < 6 /\ IsHex(CharAt(s, p + 1 + i)) THEN HexRun(s, p, i + 1) ELSE i

readColor(s, p) ==
  IF HexRun(s, p, 0) = 6
  THEN [pos |-> p + 7, kind |-> "COLOR", value |-> <<"#">> \o Slice(s, p + 1, p + 7)]
  ELSE [pos |-> p + 1, kind |-> "HASH", value |-> <<"#">>]

(***************************************************************************)
(* The main loop of lex.                                                   *)
(***************************************************************************)
\* the startsWith chain with '--' tried before the longer operators
OperatorTableShortFirst ==
  << [lit |-> <<"-","-">>,         kind |-> "ASSOC"],
     [lit |-> <<"-","-","|",">">>, kind |-> "INHERIT"],
     [lit |-> <<".",".","|",">">>, kind |-> "REALIZE"],
     [lit |-> <<"<","|","-","-">>, kind |-> "INHERIT_R"],
     [lit |-> <<"<","|",".",".">>, kind |-> "REALIZE_R"],
     [lit |-> <<"<",".",".">>,     kind |-> "DEPEND_R"],
     [lit |-> <<"o","-","-">>,     kind |-> "AGGR_R"],
     [lit |-> <<"*","-","-">>,     kind |-> "COMPOSE_R"],
     [lit |-> <<"-","-",">">>,     kind |-> "ASSOC_DIR"],
     [lit |-> <<".",".",">">>,     kind |-> "DEPEND"],
     [lit |-> <<"-","-","o">>,     kind |-> "AGGR"],
     [lit |-> <<"-","-","*">>,     kind |-> "COMPOSE"],
     [lit |-> <<"-","-","x">>,     kind |-> "RESTR"],
     [lit |-> <<"<","<">>,         kind |-> "STEREO_O"],
     [lit |-> <<">",">">>,         kind |-> "STEREO_C"],
     [lit |-> <<".",".">>,         kind |-> "DOTDOT"] >>

\* the startsWith chain, in the order the source tries it
OperatorTable ==
  << [lit |-> <<"-","-","|",">">>, kind |-> "INHERIT"],
     [lit |-> <<".",".","|",">">>, kind |-> "REALIZE"],
     [lit |-> <<"<","|","-","-">>, kind |-> "INHERIT_R"],
     [lit |-> <<"<","|",".",".">>, kind |-> "REALIZE_R"],
     [lit |-> <<"<",".",".">>,     kind |-> "DEPEND_R"],
     [lit |-> <<"o","-","-">>,     kind |-> "AGGR_R"],
     [lit |-> <<"*","-","-">>,     kind |-> "COMPOSE_R"],
     [lit |-> <<"-","-",">">>,     kind |-> "ASSOC_DIR"],
     [lit |-> <<".",".",">">>,     kind |-> "DEPEND"],
     [lit |-> <<"-","-","o">>,     kind |-> "AGGR"],
     [lit |-> <<"-","-","*">>,     kind |-> "COMPOSE"],
     [lit |-> <<"-","-","x">>,     kind |-> "RESTR"],
     [lit |-> <<"-","-">>,         kind |-> "ASSOC"],
     [lit |-> <<"<","<">>,         kind |-> "STEREO_O"],
     [lit |-> <<">",">">>,         kind |-> "STEREO_C"],
     [lit |-> <<".",".">>,         kind |-> "DOTDOT"] >>

\* the switch over single characters
SingleCharKind ==
  [c \in {"{","}","(",")","[","]",",",":",";",".","@","=","|","+","-","~","<",">"} |->
     CASE c = "{" -> "LBRACE"   [] c = "}" -> "RBRACE"
       [] c = "(" -> "LPAREN"   [] c = ")" -> "RPAREN"
       [] c = "[" -> "LBRACKET" [] c = "]" -> "RBRACKET"
       [] c = "," -> "COMMA"    [] c = ":" -> "COLON"
       [] c = ";" -> "SEMI"     [] c = "." -> "DOT"
       [] c = "@" -> "AT"       [] c = "=" -> "EQ"
       [] c = "|" -> "PIPE"     [] c = "+" -> "PLUS"
       [] c = "-" -> "MINUS"    [] c = "~" -> "TILDE"
       [] c = "<" -> "LT"       [] c = ">" -> "GT"]

\* indices of the operators rest starts with; the chain takes the first
OperatorMatches(s, p) ==
  { i \in 1..Len(OperatorTable) : StartsWith(s, p, OperatorTable[i].lit) }

FirstOperator(s, p) ==
  OperatorTable[CHOOSE i \in OperatorMatches(s, p) :
                  \A j \in OperatorMatches(s, p) : i <= j]

\* One token at position p (p < Len(s), whitespace already skipped):
\* [pos, kind, value, error]; kind "" when the character is only reported.
ScanToken(s, p) ==
  LET c == CharAt(s, p) IN
  CASE c = "\"" ->
         LET r == readString(s, p)
         IN  [pos |-> r.pos, kind |-> "STRING", value |-> r.value, error |-> FALSE]
    [] c # "\"" /\ (IsDigit(c) \/ (c = "-" /\ IsDigit(CharAt(s, p + 1)))) ->
         LET r == readNumber(s, p)
         IN  [pos |-> r.pos, kind |-> "NUMBER", value |-> r.value, error |-> FALSE]
    [] OTHER ->
         IF c = "o" /\ Slice(s, p, p + 3) = <<"o","-","-">>
         THEN [pos |-> p + 3, kind |-> "AGGR_R", value |-> <<"o","-","-">>, error |-> FALSE]
         ELSE IF IsIdentStart(c)
         THEN LET r == readIdent(s, p)
              IN  [pos |-> r.pos, kind |-> r.kind, value |-> r.value, error |-> FALSE]
         ELSE IF OperatorMatches(s, p) # {}
         THEN LET op == FirstOperator(s, p)
              IN  [pos |-> p + Len(op.lit), kind |-> op.kind, value |-> op.lit,
                   error |-> FALSE]
         ELSE IF c = "#"
         THEN LET r == readColor(s, p)
              IN  [pos |-> r.pos, kind |-> r.kind, value |-> r.value, error |-> FALSE]
         ELSE IF c \in DOMAIN SingleCharKind
         THEN [pos |-> p + 1, kind |-> SingleCharKind[c], value |-> <<c>>, error |-> FALSE]
         ELSE [pos |-> p + 1, kind |-> "", value |-> <<c>>, error |-> TRUE]

\* One iteration of `while (pos < source.length)`.
LexStep ==
  /\ phase = "lex"
  /\ pos < Len(source)
  /\ Len(tokens) < Len(source) + MaxStall
  /\ LET sk == skipWhitespaceAndComments(source, pos, line, lineStart) IN
     /\ line' = sk.line
     /\ lineStart' = sk.lineStart
     /\ IF sk.pos >= Len(source)
        THEN \* break
             /\ pos' = sk.pos
             /\ UNCHANGED <<tokens, errors>>
        ELSE LET t        == ScanToken(source, sk.pos)
                 startCol == sk.pos - sk.lineStart + 1
             IN  /\ pos' = t.pos
                 /\ tokens' = IF t.error THEN tokens
                              ELSE Append(tokens,
                                     makeToken(t.kind, t.value, sk.pos, t.pos, sk.line, startCol))
                 /\ errors' = IF t.error
                              THEN Append(errors,
                                     [message |-> <<"Unexpected character", t.value>>,
                                      line |-> sk.line, col |-> startCol, pos |-> sk.pos])
                              ELSE errors
  /\ UNCHANGED <<calls, dropped, phase, source, parseVars, anVars>>

\* The loop is over: push the EOF token and return.
LexFinish ==
  /\ phase = "lex"
  /\ pos >= Len(source)
  /\ tokens' = Append(tokens, [kind |-> "EOF", value |-> <<>>, start |-> pos, end |-> pos,
                               line |-> line, col |-> pos - lineStart + 1])
  /\ phase' = "lexed"
  /\ UNCHANGED <<calls, dropped, source, pos, line, lineStart, errors, parseVars, anVars>>

(***************************************************************************)
(* Inputs of lex.                                                          *)
(***************************************************************************)
SeqsUpTo(S, n) == UNION { [1..k -> S] : k \in 0..n }

RECURSIVE Concat(_)
Concat(seqs) == IF seqs = <<>> THEN <<>> ELSE seqs[1] \o Concat(Tail(seqs))

\* the multi-character operators and the characters they are made of next to a digit
OpPieces ==
  { OperatorTable[i].lit : i \in 1..Len(OperatorTable) }
    \cup { <<c>> : c \in {"-", ".", "|", ">", "<", "o", "1"} }
TextChars == {"\"", "\\", "n", "/", "*", "\n", " ", "?"}
HexChars  == {"a", "1"}

ColorSources ==
  { <<"#">> \o h \o t : h \in SeqsUpTo(HexChars, MaxHex), t \in {<<>>, <<"z">>} }


ParserIdle ==
  /\ ppos = 0
  /\ perrors = <<>>
  /\ pstack = <<>>
  /\ result = [program |-> [kind |-> "undefined"], errors |-> <<>>]

AnalyzerIdle ==
  /\ program = [kind |-> "undefined"]
  /\ diagIdx = 0
  /\ astep = "idle"
  /\ semErrors = <<>>
  /\ iomDiagrams = <<>>
  /\ entities = <<>>
  /\ entitySpans = <<>>
  /\ relations = <<>>
  /\ packages = <<>>
  /\ notes = <<>>

LexStart(s) ==
  /\ phase = "lex"
  /\ source = s
  /\ pos = 0
  /\ line = 1
  /\ lineStart = 0
  /\ tokens = <<>>
  /\ errors = <<>>
  /\ ParserIdle
  /\ AnalyzerIdle
  /\ calls = OneCall
  /\ dropped = <<>>

(***************************************************************************)
(* Parser primitives.  The parser reads `tokens`; a parser state is the    *)
(* pair of its position and its error list, and every parse function      *)
(* returns [pos, errs, val].                                               *)
(***************************************************************************)
\* an absent optional string / node
Undefined     == <<"<undefined>">>
UndefinedNode == [kind |-> "undefined"]
NullNode      == [kind |-> "null"]

R(p, e, v) == [pos |-> p, errs |-> e, val |-> v]

\* this.tokens[idx] ?? this.tokens[this.tokens.length - 1]
Peek(p, offset) ==
  LET idx == p + offset
  IN  IF idx >= 0 /\ idx < Len(tokens) THEN tokens[idx + 1] ELSE tokens[Len(tokens)]

At(p, kind)     == Peek(p, 0).kind = kind
AtAny(p, kinds) == Peek(p, 0).kind \in kinds

\* advance(): the position after it (the token returned is Peek(p, 0))
Advance(p) == IF Peek(p, 0).kind # "EOF" THEN p + 1 ELSE p

currentPos(p) ==
  [line |-> Peek(p, 0).line, col |-> Peek(p, 0).col, pos |-> Peek(p, 0).start]

ParseErrorAt(p, message) ==
  [message |-> message, line |-> Peek(p, 0).line, col |-> Peek(p, 0).col,
   pos |-> Peek(p, 0).start]

\* expect(kind) with the token consumed on a mismatch too
ExpectConsuming(p, e, kind) ==
  LET t == Peek(p, 0)
  IN  IF t.kind # kind
      THEN R(Advance(p),
             Append(e, ParseErrorAt(p, <<"Expected", kind, "but got", t.kind, t.value>>)), t)
      ELSE R(Advance(p), e, t)

\* expect(kind): on a mismatch record an error and return the token unconsumed
Expect(p, e, kind) ==
  LET t == Peek(p, 0)
  IN  IF t.kind # kind
      THEN R(p, Append(e, ParseErrorAt(p, <<"Expected", kind, "but got", t.kind, t.value>>)), t)
      ELSE R(Advance(p), e, t)

spanFrom(t)     == [start |-> t.start, end |-> t.end, line |-> t.line, col |-> t.col]
spanTo(from, to) == [start |-> from.start, end |-> to.end, line |-> from.line, col |-> from.col]

\* `if (this.at(kind)) this.advance()`
SkipIf(p, kind) == IF At(p, kind) THEN Advance(p) ELSE p

\* A parse function on its way: val holds its local variables by name.  The
\* statements of a function are applied innermost first, so the first statement
\* is the first line under the row of operators and the last one ends the list.
Locals(p, e) == R(p, e, <<>>)

\* `const name = ...`, from the result r of what is called
Bind(s, name, r) == R(r.pos, r.errs, (name :> r.val) @@ s.val)

\* `const name = this.expect(kind)`
ExpectAs(s, name, kind) == Bind(s, name, Expect(s.pos, s.errs, kind))

\* `if (this.at(kind)) this.advance()` in a parse function on its way
Skipped(s, kind) == R(SkipIf(s.pos, kind), s.errs, s.val)

(***************************************************************************)
(* parseFloat on the text of a token: [nan, neg, whole, frac] with whole   *)
(* the integer part and frac the fraction digits without trailing zeros.   *)
(***************************************************************************)
DigitValue(c) == CHOOSE d \in 0..9 : <<"0","1","2","3","4","5","6","7","8","9">>[d + 1] = c

RECURSIVE DigitRun(_, _)
DigitRun(v, i) ==     \* the digits of v from index i (1-based) on
  IF i <= Len(v) /\ IsDigit(v[i]) THEN <<v[i]>> \o DigitRun(v, i + 1) ELSE <<>>

RECURSIVE DigitsToNat(_)
DigitsToNat(ds) ==
  IF ds = <<>> THEN 0 ELSE 10 * DigitsToNat(SubSeq(ds, 1, Len(ds) - 1)) + DigitValue(ds[Len(ds)])

RECURSIVE TrimZeros(_)
TrimZeros(ds) ==
  IF ds # <<>> /\ ds[Len(ds)] = "0" THEN TrimZeros(SubSeq(ds, 1, Len(ds) - 1)) ELSE ds

NaN == [nan |-> TRUE, neg |-> FALSE, whole |-> 0, frac |-> <<>>]

parseFloat(v) ==
  LET neg   == v # <<>> /\ v[1] = "-"
      i0    == IF v # <<>> /\ v[1] \in {"-", "+"} THEN 2 ELSE 1
      whole == DigitRun(v, i0)
      dot   == i0 + Len(whole)
      frac  == IF dot <= Len(v) /\ v[dot] = "." THEN DigitRun(v, dot + 1) ELSE <<>>
  IN  IF whole = <<>> /\ frac = <<>>
      THEN NaN
      ELSE [nan |-> FALSE,
            neg |-> neg,
            whole |-> DigitsToNat(whole), frac |-> TrimZeros(frac)]

(***************************************************************************)
(* Type expressions.                                                       *)
(***************************************************************************)
genericBuiltins ==
  { <<"l","i","s","t">>, <<"m","a","p">>, <<"s","e","t">>, <<"o","p","t","i","o","n","a","l">>,
    <<"L","i","s","t">>, <<"M","a","p">>, <<"S","e","t">>, <<"O","p","t","i","o","n","a","l">> }

TypeStartKinds ==
  {"list", "map", "set", "optional", "int", "float", "bool", "string_t", "void", "IDENT"}

RECURSIVE parseTypeExpr(_, _)
RECURSIVE parseTypeArgList(_, _)
RECURSIVE TypeArgsRest(_, _, _)

\* the nullable suffix, applied to the base type already built
NullableSuffix(first, r) ==
  IF At(r.pos, "UNKNOWN") /\ Peek(r.pos, 0).value = <<"?">>
  THEN LET p2 == Advance(r.pos)
       IN  R(p2, r.errs, [kind |-> "NullableType", inner |-> r.val,
                          span |-> spanTo(first, Peek(p2, -1))])
  ELSE r

parseTypeExpr(p, e) ==
  LET first == Peek(p, 0)
      Generic(a) ==
        R(a.pos, a.errs, [kind |-> "GenericType", base |-> first.value, args |-> a.val,
                          span |-> spanTo(first, Peek(a.pos, -1))])
      \* both named branches: the name is consumed, then optional type arguments
      Named(p1) ==
        IF At(p1, "LT")
        THEN Generic(parseTypeArgList(p1, e))
        ELSE R(p1, e, [kind |-> "SimpleType", name |-> first.value, span |-> spanFrom(first)])
      Base(isNamed) ==
        IF isNamed
        THEN Named(Advance(p))
        ELSE R(p, Append(e, ParseErrorAt(p, <<"Expected type expression">>)),
               [kind |-> "SimpleType", name |-> <<"a","n","y">>, span |-> spanFrom(first)])
  IN  NullableSuffix(first,
        Base(\/ /\ AtAny(p, {"IDENT", "list", "map", "set", "optional"})
                /\ first.value \notin genericBuiltins
             \/ AtAny(p, TypeStartKinds)))

TypeArgsRest(p, e, args) ==
  LET More(t) == TypeArgsRest(t.pos, t.errs, Append(args, t.val))
  IN  IF At(p, "COMMA") THEN More(parseTypeExpr(Advance(p), e)) ELSE R(p, e, args)

parseTypeArgList(p, e) ==
  LET Rest(s)   == Bind(s, "args", TypeArgsRest(s.pos, s.errs, <<s.val.first>>))
      Return(s) == R(s.pos, s.errs, s.val.args)
      ThenFirst(s) == Bind(s, "first", parseTypeExpr(s.pos, s.errs))
  IN  Return(ExpectAs(Rest(ThenFirst(
        ExpectAs(Locals(p, e), "lt", "LT"))),
        "gt", "GT"))

(***************************************************************************)
(* Members.                                                                *)
(***************************************************************************)
ModifierKinds == {"abstract", "static", "final"}

RECURSIVE parseModifierList(_, _)
parseModifierList(p, mods) ==
  IF AtAny(p, ModifierKinds)
  THEN parseModifierList(Advance(p), Append(mods, Peek(p, 0).value))
  ELSE [pos |-> p, val |-> mods]

RECURSIVE IdentListRest(_, _, _)
IdentListRest(p, e, list) ==
  LET More(id) == IdentListRest(id.pos, id.errs, Append(list, id.val.value))
  IN  IF At(p, "COMMA") THEN More(Expect(Advance(p), e, "IDENT")) ELSE R(p, e, list)

parseIdentList(p, e) ==
  LET Rest(id) == IdentListRest(id.pos, id.errs, <<id.val.value>>)
  IN  Rest(Expect(p, e, "IDENT"))

isVisibility(k) == k \in {"PLUS", "MINUS", "HASH", "TILDE"}

parseVisibility(p) ==
  CASE At(p, "PLUS")  -> [pos |-> Advance(p), val |-> <<"+">>]
    [] At(p, "MINUS") -> [pos |-> Advance(p), val |-> <<"-">>]
    [] At(p, "HASH")  -> [pos |-> Advance(p), val |-> <<"#">>]
    [] At(p, "TILDE") -> [pos |-> Advance(p), val |-> <<"~">>]
    [] OTHER          -> [pos |-> p, val |-> <<>>]

parseLiteral(p, e) ==
  LET t == Peek(p, 0) IN
  IF At(p, "STRING")
  THEN R(Advance(p), e, [kind |-> "Literal", type |-> "string", value |-> t.value,
                         span |-> spanFrom(t)])
  ELSE IF At(p, "NUMBER")
  THEN R(Advance(p), e, [kind |-> "Literal", type |-> "number", value |-> parseFloat(t.value),
                         span |-> spanFrom(t)])
  ELSE IF t.value \in { <<"t","r","u","e">>, <<"f","a","l","s","e">> }
  THEN R(Advance(p), e, [kind |-> "Literal", type |-> "boolean",
                         value |-> (t.value = <<"t","r","u","e">>), span |-> spanFrom(t)])
  ELSE R(p, Append(e, ParseErrorAt(p, <<"Expected literal value">>)),
         [kind |-> "Literal", type |-> "string", value |-> <<>>, span |-> spanFrom(t)])

parseParam(p, e) ==
  LET Return(s) == R(s.pos, s.errs, [name |-> s.val.name.value, type |-> s.val.type])
      ThenType(s) == Bind(s, "type", parseTypeExpr(s.pos, s.errs))
  IN  Return(ThenType(ExpectAs(
        ExpectAs(Locals(p, e), "name", "IDENT"),
        "colon", "COLON")))

RECURSIVE ParamListRest(_, _, _)
ParamListRest(p, e, params) ==
  LET More(q) == ParamListRest(q.pos, q.errs, Append(params, q.val))
  IN  IF At(p, "COMMA") THEN More(parseParam(Advance(p), e)) ELSE R(p, e, params)

parseParamList(p, e) ==
  LET Rest(q) == ParamListRest(q.pos, q.errs, <<q.val>>)
  IN  IF At(p, "RPAREN") THEN R(p, e, <<>>) ELSE Rest(parseParam(p, e))

parseEnumValue(p, e) ==
  LET t == Expect(p, e, "IDENT")
  IN  R(SkipIf(t.pos, "SEMI"), t.errs,
        [kind |-> "EnumValueDecl", name |-> t.val.value, span |-> spanFrom(t.val)])

parseFieldRest(p, e, vis, mods, name, start) ==
  LET Default(q, f) == IF At(q, "EQ") THEN parseLiteral(Advance(q), f)
                       ELSE R(q, f, UndefinedNode)
      Return(s) ==
        R(s.pos, s.errs,
          [kind |-> "FieldDecl", visibility |-> vis, modifiers |-> mods, name |-> name,
           type |-> s.val.type, defaultValue |-> s.val.defaultValue,
           span |-> [start |-> start.start, end |-> Peek(s.pos, 0).end,
                     line |-> start.line, col |-> start.col]])
      ThenType(s) == Bind(s, "type", parseTypeExpr(s.pos, s.errs))
      ThenDefaultValue(s) == Bind(s, "defaultValue", Default(s.pos, s.errs))
  IN  Return(Skipped(ThenDefaultValue(ThenType(
        ExpectAs(Locals(p, e), "colon", "COLON"))),
        "SEMI"))

parseMethodRest(p, e, vis, mods, name, start) ==
  LET Return(s) ==
        R(s.pos, s.errs,
          [kind |-> "MethodDecl", visibility |-> vis, modifiers |-> mods, name |-> name,
           params |-> s.val.params, returnType |-> s.val.returnType,
           span |-> [start |-> start.start, end |-> Peek(s.pos, 0).end,
                     line |-> start.line, col |-> start.col]])
      ThenParams(s) == Bind(s, "params", parseParamList(s.pos, s.errs))
      ThenReturnType(s) == Bind(s, "returnType", parseTypeExpr(s.pos, s.errs))
  IN  Return(Skipped(ThenReturnType(ExpectAs(ExpectAs(ThenParams(
        ExpectAs(Locals(p, e), "lp", "LPAREN")),
        "rp", "RPAREN"),
        "colon", "COLON")),
        "SEMI"))

\* one member, or NullNode for a separator
parseMember(p, e, entityKind) ==
  LET Rest(vis, mods, name) ==
        IF At(name.pos, "LPAREN")
        THEN parseMethodRest(name.pos, name.errs, vis, mods, name.val.value,
                             Peek(name.pos, -1))
        ELSE parseFieldRest(name.pos, name.errs, vis, mods, name.val.value,
                            Peek(name.pos, -1))
      Named(vis, mods) == Rest(vis.val, mods.val, Expect(mods.pos, e, "IDENT"))
      Modified(vis)    == Named(vis, parseModifierList(vis.pos, <<>>))
  IN  IF At(p, "SEMI")
      THEN R(Advance(p), e, NullNode)
      ELSE IF entityKind = <<"e","n","u","m">> /\ At(p, "IDENT") /\ ~isVisibility(Peek(p, 0).kind)
      THEN parseEnumValue(p, e)
      ELSE Modified(parseVisibility(p))

(***************************************************************************)
(* Declarations: the straight-line part of each parse function.  The five  *)
(* loops of the parser (diagram list, diagram/package body, member list,   *)
(* relation attributes, style block) run one iteration per step, with the  *)
(* enclosing calls kept on pstack.                                         *)
(***************************************************************************)
DiagramKinds ==
  { <<"c","l","a","s","s">>, <<"u","s","e","c","a","s","e">>,
    <<"s","e","q","u","e","n","c","e">>, <<"c","o","m","p","o","n","e","n","t">>,
    <<"f","l","o","w">>, <<"d","e","p","l","o","y","m","e","n","t">> }

parseDiagramKind(p, e) ==
  LET t == Peek(p, 0)
  IN  IF t.value \in DiagramKinds
      THEN R(Advance(p), e, t.value)
      ELSE R(Advance(p), Append(e, ParseErrorAt(p, <<"Unknown diagram kind">>)),
             <<"c","l","a","s","s">>)

EntityStartKinds ==
  {"abstract", "static", "final",
   "class", "interface", "enum", "actor", "usecase", "component", "node"}

isEntityStart(p) == Peek(p, 0).kind \in EntityStartKinds

RelationOperatorKinds ==
  {"ASSOC", "ASSOC_DIR", "INHERIT", "REALIZE", "AGGR", "COMPOSE", "RESTR",
   "DEPEND", "INHERIT_R", "REALIZE_R", "DEPEND_R", "AGGR_R", "COMPOSE_R"}

isRelationOperator(k) == k \in RelationOperatorKinds

tokenToRelKind(k) ==
  IF k \in RelationOperatorKinds
  THEN OperatorTable[CHOOSE i \in 1..Len(OperatorTable) : OperatorTable[i].kind = k].lit
  ELSE <<"-","-">>

RECURSIVE parseImportList(_, _, _)
parseImportList(p, e, imports) ==
  LET More(s) ==
        parseImportList(s.pos, s.errs,
          Append(imports, [kind |-> "ImportDecl", path |-> s.val.path.value,
                           span |-> spanFrom(s.val.kw)]))
  IN  IF At(p, "import") THEN More(Skipped(ExpectAs(
        ExpectAs(Locals(p, e), "kw", "import"),
        "path", "STRING"),
        "SEMI")) ELSE R(p, e, imports)

\* parseDiagramDecl up to the body
DiagramHeader(p, e) ==
  LET Frame(s) ==
        R(s.pos, s.errs,
          [frame |-> "body", owner |-> "DiagramDecl", kw |-> s.val.kw,
           name |-> s.val.name.value, diagramKind |-> s.val.diagramKind, items |-> <<>>])
      ThenDiagramKind(s) == Bind(s, "diagramKind", parseDiagramKind(s.pos, s.errs))
  IN  Frame(ExpectAs(ThenDiagramKind(ExpectAs(ExpectAs(
        ExpectAs(Locals(p, e), "kw", "diagram"),
        "name", "IDENT"),
        "colon", "COLON")),
        "lb", "LBRACE"))

\* parsePackageDecl up to the body
PackageHeader(p, e) ==
  LET Frame(s) ==
        R(s.pos, s.errs,
          [frame |-> "body", owner |-> "PackageDecl", kw |-> s.val.kw,
           name |-> s.val.name.value, diagramKind |-> <<>>, items |-> <<>>])
  IN  Frame(ExpectAs(ExpectAs(
        ExpectAs(Locals(p, e), "kw", "package"),
        "name", "IDENT"),
        "lb", "LBRACE"))

\* parseEntityDecl up to the optional body
EntityHeader(p, e) ==
  LET first == Peek(p, 0)
      Modifiers(q, f) == R(parseModifierList(q, <<>>).pos, f, parseModifierList(q, <<>>).val)
      \* `const entityKind = this.advance().value`
      EntityKind(q, f) == R(Advance(q), f, Peek(q, 0).value)
      StereoName(s)   == R(s.pos, s.errs, s.val.id.value)
      Stereotype(q, f) ==
        IF At(q, "STEREO_O")
        THEN StereoName(ExpectAs(ExpectAs(Locals(Advance(q), f), "id", "IDENT"),
                                 "close", "STEREO_C"))
        ELSE R(q, f, Undefined)
      Extends(q, f) ==
        IF At(q, "extends") THEN parseIdentList(Advance(q), f) ELSE R(q, f, <<>>)
      Implements(q, f) ==
        IF At(q, "implements") THEN parseIdentList(Advance(q), f) ELSE R(q, f, <<>>)
      Frame(s) ==
        R(s.pos, s.errs,
          [frame |-> "members", first |-> first, modifiers |-> s.val.modifiers,
           entityKind |-> s.val.entityKind, name |-> s.val.name.value,
           stereotype |-> s.val.stereotype, extendsClause |-> s.val.extendsClause,
           implementsClause |-> s.val.implementsClause, members |-> <<>>])
      ThenModifiers(s) == Bind(s, "modifiers", Modifiers(s.pos, s.errs))
      ThenEntityKind(s) == Bind(s, "entityKind", EntityKind(s.pos, s.errs))
      ThenStereotype(s) == Bind(s, "stereotype", Stereotype(s.pos, s.errs))
      ThenExtendsClause(s) == Bind(s, "extendsClause", Extends(s.pos, s.errs))
      ThenImplementsClause(s) == Bind(s, "implementsClause", Implements(s.pos, s.errs))
  IN  Frame(ThenImplementsClause(ThenExtendsClause(ThenStereotype(ExpectAs(ThenEntityKind(
        ThenModifiers(Locals(p, e))),
        "name", "IDENT")))))

EntityNode(f, closeToken) ==
  [kind |-> "EntityDecl", modifiers |-> f.modifiers, entityKind |-> f.entityKind,
   name |-> f.name, stereotype |-> f.stereotype, extendsClause |-> f.extendsClause,
   implementsClause |-> f.implementsClause, members |-> f.members,
   span |-> spanTo(f.first, closeToken)]

EmptyMap == [k \in {} |-> <<>>]
MapSet(m, key, val) == [k \in DOMAIN m \cup {key} |-> IF k = key THEN val ELSE m[k]]

\* parseRelationDecl up to the optional attribute list
RelationHeader(p, e) ==
  LET \* `const relOp = this.advance()`
      RelOp(q, f) == R(Advance(q), f, Peek(q, 0))
      Frame(s) ==
        R(s.pos, s.errs,
          [frame |-> "attrs", fromToken |-> s.val.from, from |-> s.val.from.value,
           relKind |-> tokenToRelKind(s.val.relOp.kind), to |-> s.val.to.value,
           label |-> Undefined, fromMult |-> Undefined, toMult |-> Undefined,
           style |-> EmptyMap])
      ThenRelOp(s) == Bind(s, "relOp", RelOp(s.pos, s.errs))
  IN  Frame(ExpectAs(ThenRelOp(
        ExpectAs(Locals(p, e), "from", "IDENT")),
        "to", "IDENT"))

RelationNode(f, p) ==
  [kind |-> "RelationDecl", from |-> f.from, relKind |-> f.relKind, to |-> f.to,
   label |-> f.label, fromMult |-> f.fromMult, toMult |-> f.toMult, style |-> f.style,
   span |-> spanTo(f.fromToken, Peek(p, -1))]

\* one iteration of the attribute loop
AttrIteration(p, e, f) ==
  LET Assigned(k, v) ==
        CASE k = <<"l","a","b","e","l">>             -> [f EXCEPT !.label = v]
          [] k = <<"f","r","o","m","M","u","l","t">> -> [f EXCEPT !.fromMult = v]
          [] k = <<"t","o","M","u","l","t">>         -> [f EXCEPT !.toMult = v]
          [] OTHER -> [f EXCEPT !.style = MapSet(f.style, k, v)]
      Frame(s) == R(s.pos, s.errs, Assigned(s.val.key.value, s.val.val.value))
  IN  Frame(Skipped(ExpectAs(ExpectAs(
        ExpectAs(Locals(p, e), "key", "IDENT"),
        "eq", "EQ"),
        "val", "STRING"),
        "COMMA"))

parseNoteDecl(p, e) ==
  LET OnName(id) == R(id.pos, id.errs, id.val.value)
      On(q, f) == IF At(q, "on") THEN OnName(Expect(Advance(q), f, "IDENT"))
                  ELSE R(q, f, Undefined)
      Return(s) ==
        R(s.pos, s.errs,
          [kind |-> "NoteDecl", text |-> s.val.text.value, on |-> s.val.on,
           span |-> spanFrom(s.val.kw)])
      ThenOn(s) == Bind(s, "on", On(s.pos, s.errs))
  IN  Return(ThenOn(ExpectAs(
        ExpectAs(Locals(p, e), "kw", "note"),
        "text", "STRING")))

\* parseStyleDecl up to the block
StyleHeader(p, e) ==
  LET Frame(s) ==
        R(s.pos, s.errs,
          [frame |-> "styles", kw |-> s.val.kw, target |-> s.val.target.value,
           styles |-> EmptyMap])
  IN  Frame(ExpectAs(ExpectAs(
        ExpectAs(Locals(p, e), "kw", "style"),
        "target", "IDENT"),
        "lb", "LBRACE"))

\* one iteration of the style loop
StyleIteration(p, e, f) ==
  LET Value(q, g) == IF At(q, "COLOR") THEN R(Advance(q), g, Peek(q, 0))
                     ELSE Expect(q, g, "STRING")
      Frame(s) ==
        R(s.pos, s.errs,
          [f EXCEPT !.styles = MapSet(f.styles, s.val.key.value, s.val.val.value)])
      ThenVal(s) == Bind(s, "val", Value(s.pos, s.errs))
  IN  Frame(Skipped(ThenVal(ExpectAs(
        ExpectAs(Locals(p, e), "key", "IDENT"),
        "eq", "EQ")),
        "SEMI"))

parseLayoutAnnotation(p, e) ==
  LET Return(s) ==
        R(s.pos, s.errs,
          [kind |-> "LayoutAnnotation", entity |-> s.val.entity.value,
           x |-> parseFloat(s.val.x.value), y |-> parseFloat(s.val.y.value),
           span |-> spanTo(s.val.at, s.val.close)])
  IN  Return(ExpectAs(ExpectAs(ExpectAs(ExpectAs(ExpectAs(ExpectAs(ExpectAs(
        ExpectAs(Locals(p, e), "at", "AT"),
        "entity", "IDENT"),
        "kwAt", "at"),
        "lp", "LPAREN"),
        "x", "NUMBER"),
        "comma", "COMMA"),
        "y", "NUMBER"),
        "close", "RPAREN"))

(***************************************************************************)
(* The parser as a state machine.                                          *)
(***************************************************************************)
Top == pstack[Len(pstack)]

InLoop(frame) == phase = "parse" /\ pstack # <<>> /\ Top.frame = frame

\* the frame below the top receives the finished node
Deliver(stack, node) ==
  LET below  == SubSeq(stack, 1, Len(stack) - 1)
      n      == Len(below)
  IN  [below EXCEPT ![n] =
         IF @.frame = "diagrams"
         THEN [@ EXCEPT !.diagrams = Append(@, node)]
         ELSE [@ EXCEPT !.items = Append(@, node)]]

AddItem(stack, node) ==
  [stack EXCEPT ![Len(stack)] = [@ EXCEPT !.items = Append(@, node)]]

ReplaceTop(stack, f) == [stack EXCEPT ![Len(stack)] = f]

\* a parse function that goes on into a loop: its frame is pushed
Enter(h) == ppos' = h.pos /\ perrors' = h.errs /\ pstack' = Append(pstack, h.val)

\* a parse function that returned a node to the body loop
Item(r) == ppos' = r.pos /\ perrors' = r.errs /\ pstack' = AddItem(pstack, r.val)

\* one iteration of a loop that changed the frame of its function
Iterated(r) == ppos' = r.pos /\ perrors' = r.errs /\ pstack' = ReplaceTop(pstack, r.val)

\* new Parser(tokens).parse() up to the diagram list loop
ParseStart ==
  /\ phase = "lexed"
  /\ LET Begin(im) ==
           /\ ppos' = im.pos
           /\ perrors' = im.errs
           /\ pstack' = << [frame |-> "diagrams", first |-> Peek(0, 0), imports |-> im.val,
                            diagrams |-> <<>>] >>
     IN  Begin(parseImportList(0, <<>>, <<>>))
  /\ phase' = "parse"
  /\ UNCHANGED <<calls, dropped, lexVars, result, anVars>>

\* parseDiagramList: one iteration of `while (!this.at('EOF'))`
DiagramListIter ==
  /\ InLoop("diagrams")
  /\ ~At(ppos, "EOF")
  /\ Len(perrors) < MaxParseErrors
  /\ IF At(ppos, "diagram")
     THEN Enter(DiagramHeader(ppos, perrors))
     ELSE /\ perrors' = Append(perrors, ParseErrorAt(ppos, <<"Unexpected token">>))
          /\ ppos' = Advance(ppos)
          /\ UNCHANGED pstack
  /\ UNCHANGED <<calls, dropped, phase, lexVars, result, anVars>>

\* parse() returns; parse(source) prepends the lexer's errors
ParseFinish ==
  /\ InLoop("diagrams")
  /\ At(ppos, "EOF")
  /\ result' = [program |-> [kind |-> "Program", imports |-> Top.imports,
                             diagrams |-> Top.diagrams,
                             span |-> spanTo(Top.first, Peek(ppos, 0))],
                errors |-> errors \o perrors]
  /\ phase' = "parsed"
  /\ UNCHANGED <<calls, dropped, lexVars, ppos, perrors, pstack, anVars>>

\* parseDiagramBody: one iteration, i.e. one parseBodyItem
BodyIter ==
  /\ InLoop("body")
  /\ ~At(ppos, "RBRACE") /\ ~At(ppos, "EOF")
  /\ Len(perrors) < MaxParseErrors
  /\ LET t == Peek(ppos, 0)
         \* parseEntityDecl / parseRelationDecl go on into their loop, or return
         EnterIf(h, open, node) ==
           /\ perrors' = h.errs
           /\ IF At(h.pos, open)
              THEN ppos' = Advance(h.pos) /\ pstack' = Append(pstack, h.val)
              ELSE ppos' = h.pos /\ pstack' = AddItem(pstack, node)
         Entity(h)   == EnterIf(h, "LBRACE", EntityNode(h.val, Peek(h.pos, 0)))
         Relation(h) == EnterIf(h, "LBRACKET", RelationNode(h.val, h.pos))
     IN  CASE t.kind = "AT"      -> Item(parseLayoutAnnotation(ppos, perrors))
           [] t.kind = "package" -> Enter(PackageHeader(ppos, perrors))
           [] t.kind = "note"    -> Item(parseNoteDecl(ppos, perrors))
           [] t.kind = "style"   -> Enter(StyleHeader(ppos, perrors))
           [] OTHER ->
                IF isEntityStart(ppos)
                THEN Entity(EntityHeader(ppos, perrors))
                ELSE IF t.kind = "IDENT" /\ isRelationOperator(Peek(ppos, 1).kind)
                THEN Relation(RelationHeader(ppos, perrors))
                ELSE /\ perrors' = Append(perrors,
                                      ParseErrorAt(ppos, <<"Unexpected token in diagram body">>))
                     /\ ppos' = Advance(ppos)
                     /\ UNCHANGED pstack
  /\ UNCHANGED <<calls, dropped, phase, lexVars, result, anVars>>

\* the body loop ends: parseDiagramDecl / parsePackageDecl expect the '}'
BodyExit ==
  /\ InLoop("body")
  /\ At(ppos, "RBRACE") \/ At(ppos, "EOF")
  /\ LET close == Expect(ppos, perrors, "RBRACE")
         node  == IF Top.owner = "DiagramDecl"
                  THEN [kind |-> "DiagramDecl", name |-> Top.name,
                        diagramKind |-> Top.diagramKind, body |-> Top.items,
                        span |-> spanTo(Top.kw, close.val)]
                  ELSE [kind |-> "PackageDecl", name |-> Top.name, body |-> Top.items,
                        span |-> spanTo(Top.kw, close.val)]
     IN  /\ ppos' = close.pos
         /\ perrors' = close.errs
         /\ pstack' = Deliver(pstack, node)
  /\ UNCHANGED <<calls, dropped, phase, lexVars, result, anVars>>

\* parseEntityDecl: one iteration of the member loop
MemberIter ==
  /\ InLoop("members")
  /\ ~At(ppos, "RBRACE") /\ ~At(ppos, "EOF")
  /\ Len(perrors) < MaxParseErrors
  /\ LET Member(m) ==
           /\ ppos' = m.pos
           /\ perrors' = m.errs
           /\ pstack' = IF m.val = NullNode THEN pstack
                        ELSE ReplaceTop(pstack, [Top EXCEPT !.members = Append(@, m.val)])
     IN  Member(parseMember(ppos, perrors, Top.entityKind))
  /\ UNCHANGED <<calls, dropped, phase, lexVars, result, anVars>>

MemberExit ==
  /\ InLoop("members")
  /\ At(ppos, "RBRACE") \/ At(ppos, "EOF")
  /\ LET close == Expect(ppos, perrors, "RBRACE") IN
     /\ ppos' = close.pos
     /\ perrors' = close.errs
     /\ pstack' = Deliver(pstack, EntityNode(Top, close.val))
  /\ UNCHANGED <<calls, dropped, phase, lexVars, result, anVars>>

\* parseRelationDecl: one iteration of the attribute loop
AttrIter ==
  /\ InLoop("attrs")
  /\ ~At(ppos, "RBRACKET") /\ ~At(ppos, "EOF")
  /\ Len(perrors) < MaxParseErrors
  /\ Iterated(AttrIteration(ppos, perrors, Top))
  /\ UNCHANGED <<calls, dropped, phase, lexVars, result, anVars>>

AttrExit ==
  /\ InLoop("attrs")
  /\ At(ppos, "RBRACKET") \/ At(ppos, "EOF")
  /\ LET close == Expect(ppos, perrors, "RBRACKET") IN
     /\ ppos' = close.pos
     /\ perrors' = close.errs
     /\ pstack' = Deliver(pstack, RelationNode(Top, close.pos))
  /\ UNCHANGED <<calls, dropped, phase, lexVars, result, anVars>>

\* parseStyleDecl: one iteration of the style loop
StyleIter ==
  /\ InLoop("styles")
  /\ ~At(ppos, "RBRACE") /\ ~At(ppos, "EOF")
  /\ Len(perrors) < MaxParseErrors
  /\ Iterated(StyleIteration(ppos, perrors, Top))
  /\ UNCHANGED <<calls, dropped, phase, lexVars, result, anVars>>

StyleExit ==
  /\ InLoop("styles")
  /\ At(ppos, "RBRACE") \/ At(ppos, "EOF")
  /\ LET close == Expect(ppos, perrors, "RBRACE") IN
     /\ ppos' = close.pos
     /\ perrors' = close.errs
     /\ pstack' = Deliver(pstack, [kind |-> "StyleDecl", target |-> Top.target,
                                   styles |-> Top.styles,
                                   span |-> spanTo(Top.kw, close.val)])
  /\ UNCHANGED <<calls, dropped, phase, lexVars, result, anVars>>

(***************************************************************************)
(* Semantic analyzer.  The entity Map is a sequence of entities in         *)
(* insertion order, keyed by name.                                         *)
(***************************************************************************)
\* JavaScript truthiness of an optional string
Truthy(s) == s # Undefined /\ s # <<>>

Has(ents, name)     == \E i \in 1..Len(ents) : ents[i].name = name
IndexOf(ents, name) == CHOOSE i \in 1..Len(ents) : ents[i].name = name
Get(ents, name)     == ents[IndexOf(ents, name)]

SemErr(rule, message, entity, sp) ==
  [rule |-> rule, message |-> message, entity |-> entity, line |-> sp.line, col |-> sp.col]

NoSpan == [line |-> 0, col |-> 0]    \* an error without line and col

RECURSIVE JoinTypes(_)
RECURSIVE typeToString(_)
typeToString(t) ==
  CASE t.kind = "SimpleType"   -> t.name
    [] t.kind = "GenericType"  -> t.base \o <<"<">> \o JoinTypes(t.args) \o <<">">>
    [] t.kind = "NullableType" -> typeToString(t.inner) \o <<"?">>
    [] t.kind = "ListShorthand" ->
         <<"L","i","s","t","<">> \o typeToString(t.element) \o <<">">>

JoinTypes(args) ==    \* args.map(typeToString).join(', ')
  IF args = <<>> THEN <<>>
  ELSE IF Len(args) = 1 THEN typeToString(args[1])
  ELSE typeToString(args[1]) \o <<",", " ">> \o JoinTypes(Tail(args))

visToIOM(v) ==
  CASE v = <<"+">> -> "public"
    [] v = <<"-">> -> "private"
    [] v = <<"#">> -> "protected"
    [] v = <<"~">> -> "package"
    [] OTHER       -> "public"

RECURSIVE NatToText(_)
NatToText(n) ==
  IF n < 10 THEN <<(<<"0","1","2","3","4","5","6","7","8","9">>)[n + 1]>>
  ELSE NatToText(n \div 10) \o NatToText(n % 10)

\* String(literal.value)
LiteralToText(l) ==
  CASE l.type = "string"  -> l.value
    [] l.type = "boolean" -> IF l.value THEN <<"t","r","u","e">> ELSE <<"f","a","l","s","e">>
    [] l.type = "number"  ->
         IF l.value.nan THEN <<"N","a","N">>
         ELSE (IF l.value.neg /\ (l.value.whole # 0 \/ l.value.frac # <<>>)
               THEN <<"-">> ELSE <<>>)
              \o NatToText(l.value.whole)
              \o (IF l.value.frac = <<>> THEN <<>> ELSE <<".">> \o l.value.frac)

Includes(seq, x) == \E i \in 1..Len(seq) : seq[i] = x

\* buildEntity: the member loop, [fields, methods, enumValues, names, errs]
RECURSIVE BuildMembers(_, _, _)
BuildMembers(decl, i, acc) ==
  IF i > Len(decl.members) THEN acc
  ELSE LET m   == decl.members[i]
           dup == IF m.name \in acc.names
                  THEN <<SemErr("SS-2", <<"Duplicate member", m.name, decl.name>>,
                                decl.name, NoSpan)>>
                  ELSE <<>>
       IN  BuildMembers(decl, i + 1,
             CASE m.kind = "EnumValueDecl" ->
                    [acc EXCEPT !.enumValues = Append(@, [name |-> m.name])]
               [] m.kind = "FieldDecl" ->
                    [acc EXCEPT
                       !.errs = @ \o dup,
                       !.names = @ \cup {m.name},
                       !.fields = Append(@,
                          [name |-> m.name, type |-> typeToString(m.type),
                           visibility |-> visToIOM(m.visibility),
                           isStatic |-> Includes(m.modifiers, <<"s","t","a","t","i","c">>),
                           isFinal |-> Includes(m.modifiers, <<"f","i","n","a","l">>),
                           defaultValue |-> IF m.defaultValue # UndefinedNode
                                            THEN LiteralToText(m.defaultValue)
                                            ELSE Undefined])]
               [] m.kind = "MethodDecl" ->
                    [acc EXCEPT
                       !.errs = @ \o dup,
                       !.names = @ \cup {m.name},
                       !.methods = Append(@,
                          [name |-> m.name,
                           params |-> [j \in 1..Len(m.params) |->
                                         [name |-> m.params[j].name,
                                          type |-> typeToString(m.params[j].type)]],
                           returnType |-> typeToString(m.returnType),
                           visibility |-> visToIOM(m.visibility),
                           isStatic |-> Includes(m.modifiers, <<"s","t","a","t","i","c">>),
                           isAbstract |->
                             \/ Includes(decl.modifiers, <<"a","b","s","t","r","a","c","t">>)
                             \/ Includes(m.modifiers, <<"a","b","s","t","r","a","c","t">>)])]
               [] OTHER -> acc)

\* buildEntity(decl, pkg, errors): [entity, errs] with errs the errors it pushes
buildEntity(decl, pkg) ==
  LET b == BuildMembers(decl, 1, [fields |-> <<>>, methods |-> <<>>, enumValues |-> <<>>,
                                  names |-> {}, errs |-> <<>>])
  IN  [errs |-> b.errs,
       entity |->
         [id |-> decl.name, name |-> decl.name, kind |-> decl.entityKind,
          stereotype |-> decl.stereotype,
          isAbstract |-> \/ Includes(decl.modifiers, <<"a","b","s","t","r","a","c","t">>)
                         \/ decl.entityKind = <<"i","n","t","e","r","f","a","c","e">>,
          package |-> pkg, fields |-> b.fields, methods |-> b.methods,
          enumValues |-> b.enumValues, extendsNames |-> decl.extendsClause,
          implementsNames |-> decl.implementsClause, position |-> UndefinedNode,
          styles |-> EmptyMap, note |-> Undefined]]

relTokenToKind(tok) ==
  CASE tok = <<"-","-">>         -> "association"
    [] tok = <<"-","-",">">>     -> "directed-association"
    [] tok = <<"-","-","|",">">> -> "inheritance"
    [] tok = <<".",".","|",">">> -> "realization"
    [] tok = <<"-","-","o">>     -> "aggregation"
    [] tok = <<"-","-","*">>     -> "composition"
    [] tok = <<".",".",">">>     -> "dependency"
    [] tok = <<"-","-","x">>     -> "restriction"
    [] tok = <<"<","|","-","-">> -> "inheritance"
    [] tok = <<"<","|",".",".">> -> "realization"
    [] tok = <<"<",".",".">>     -> "dependency"
    [] tok = <<"o","-","-">>     -> "aggregation"
    [] tok = <<"*","-","-">>     -> "composition"
    [] OTHER                     -> "association"

buildRelation(decl, idx) ==
  [id |-> <<"r","e","l","_">> \o NatToText(idx), from |-> decl.from, to |-> decl.to,
   kind |-> relTokenToKind(decl.relKind), label |-> decl.label,
   fromMult |-> decl.fromMult, toMult |-> decl.toMult, styles |-> decl.style]

MergeMaps(a, b) ==    \* Object.assign(a, b)
  [k \in DOMAIN a \cup DOMAIN b |-> IF k \in DOMAIN b THEN b[k] ELSE a[k]]

\* const e = entities.get(name); if (e) e.note = text
SetNote(ents, name, text) ==
  IF Has(ents, name) THEN [ents EXCEPT ![IndexOf(ents, name)].note = text] ELSE ents

\* const e = entities.get(name); if (e && !e.note) e.note = text
SetNoteIfNone(ents, name, text) ==
  IF Has(ents, name) /\ ~Truthy(Get(ents, name).note)
  THEN [ents EXCEPT ![IndexOf(ents, name)].note = text] ELSE ents

\* const e = entities.get(name); if (e) Object.assign(e.styles, styles)
AssignStyles(ents, name, styles) ==
  IF Has(ents, name)
  THEN [ents EXCEPT ![IndexOf(ents, name)].styles = MergeMaps(@, styles)] ELSE ents

\* const e = entities.get(name); if (e) e.position = { x, y }
SetPosition(ents, name, x, y) ==
  IF Has(ents, name)
  THEN [ents EXCEPT ![IndexOf(ents, name)].position = [x |-> x, y |-> y]] ELSE ents

\* names of the EntityDecl children of a package body
RECURSIVE ChildEntityNames(_)
ChildEntityNames(body) ==
  IF body = <<>> THEN <<>>
  ELSE (IF body[1].kind = "EntityDecl" THEN <<body[1].name>> ELSE <<>>)
       \o ChildEntityNames(Tail(body))

\* collectItems calling entities.set on both branches of SS-1: a later declaration
\* replaces the entity the first one made
CollectEntityLastWins(st, item, pkgName) ==
  LET b == buildEntity(item, pkgName)
  IN  IF Has(st.entities, item.name)
      THEN [st EXCEPT !.errs = Append(@, SemErr("SS-1", <<"Duplicate entity name", item.name>>,
                                                item.name, item.span)) \o b.errs,
                      !.entities = [@ EXCEPT ![IndexOf(@, item.name)] = b.entity]]
      ELSE [st EXCEPT !.spans = Append(@, [name |-> item.name, line |-> item.span.line,
                                           col |-> item.span.col]),
                      !.errs = @ \o b.errs,
                      !.entities = Append(@, b.entity)]

\* collectItems calling buildEntity before the test of SS-1: the members of a later
\* declaration are checked as well
CollectEntityCheckingAll(st, item, pkgName) ==
  LET b == buildEntity(item, pkgName)
  IN  IF Has(st.entities, item.name)
      THEN [st EXCEPT !.errs = Append(@ \o b.errs,
                                      SemErr("SS-1", <<"Duplicate entity name", item.name>>,
                                             item.name, item.span))]
      ELSE [st EXCEPT !.spans = Append(@, [name |-> item.name, line |-> item.span.line,
                                           col |-> item.span.col]),
                      !.errs = @ \o b.errs,
                      !.entities = Append(@, b.entity)]

\* what collectItems does to an existing name / a new one
CollectEntity(st, item, pkgName) ==
  IF Has(st.entities, item.name)
  THEN [st EXCEPT !.errs = Append(@, SemErr("SS-1", <<"Duplicate entity name", item.name>>,
                                            item.name, item.span))]
  ELSE LET b == buildEntity(item, pkgName)
       IN  [st EXCEPT !.spans = Append(@, [name |-> item.name, line |-> item.span.line,
                                           col |-> item.span.col]),
                      !.errs = @ \o b.errs,
                      !.entities = Append(@, b.entity)]

\* collectItems(items, pkgName) from item i on; st = [entities, spans, notes, packages, errs]
RECURSIVE collectItems(_, _, _, _)
collectItems(items, i, pkgName, st) ==
  IF i > Len(items) THEN st
  ELSE LET item == items[i] IN
       collectItems(items, i + 1, pkgName,
         CASE item.kind = "PackageDecl" ->
                LET inner == collectItems(item.body, 1, item.name, st)
                IN  [inner EXCEPT !.packages =
                       Append(@, [name |-> item.name,
                                  entityNames |-> ChildEntityNames(item.body),
                                  subPackages |-> <<>>])]
           [] item.kind = "EntityDecl" -> CollectEntity(st, item, pkgName)
           [] item.kind = "NoteDecl" ->
                [st EXCEPT
                   !.notes = Append(@, [text |-> item.text, onEntity |-> item.on]),
                   !.entities = IF Truthy(item.on) THEN SetNote(@, item.on, item.text)
                                ELSE @]
           [] item.kind = "StyleDecl" ->
                [st EXCEPT !.entities = AssignStyles(@, item.target, item.styles)]
           [] item.kind = "LayoutAnnotation" ->
                [st EXCEPT !.entities = SetPosition(@, item.entity, item.x, item.y)]
           [] OTHER -> st)

\* second sweep over the notes
RECURSIVE attachNotes(_, _, _)
attachNotes(ns, i, ents) ==
  IF i > Len(ns) THEN ents
  ELSE attachNotes(ns, i + 1,
                   IF Truthy(ns[i].onEntity)
                   THEN SetNoteIfNone(ents, ns[i].onEntity, ns[i].text) ELSE ents)

\* the SS-3 error for an endpoint that is no entity of the diagram
UnknownEndpoint(ents, name, span) ==
  IF ~Has(ents, name)
  THEN <<SemErr("SS-3", <<"Relation references unknown entity", name>>, Undefined, span)>>
  ELSE <<>>

\* collectRelations keeping a relation only when both endpoints resolve
CollectRelationResolvedOnly(st, item, ents) ==
  [relations |-> IF Has(ents, item.from) /\ Has(ents, item.to)
                 THEN Append(st.relations, buildRelation(item, Len(st.relations)))
                 ELSE st.relations,
   errs |-> st.errs \o UnknownEndpoint(ents, item.from, item.span)
                    \o UnknownEndpoint(ents, item.to, item.span)]

\* collectRelations testing `to` in an else branch of the test of `from`
CollectRelationElseIf(st, item, ents) ==
  [relations |-> Append(st.relations, buildRelation(item, Len(st.relations))),
   errs |-> st.errs \o (IF ~Has(ents, item.from)
                        THEN UnknownEndpoint(ents, item.from, item.span)
                        ELSE UnknownEndpoint(ents, item.to, item.span))]

\* what collectRelations does with one RelationDecl; st = [relations, errs]
CollectRelation(st, item, ents) ==
  [relations |-> Append(st.relations, buildRelation(item, Len(st.relations))),
   errs |-> st.errs \o UnknownEndpoint(ents, item.from, item.span)
                    \o UnknownEndpoint(ents, item.to, item.span)]

\* collectRelations(items) from item i on
RECURSIVE collectRelations(_, _, _, _)
collectRelations(items, i, ents, st) ==
  IF i > Len(items) THEN st
  ELSE LET item == items[i] IN
       collectRelations(items, i + 1, ents,
         CASE item.kind = "RelationDecl" -> CollectRelation(st, item, ents)
           [] item.kind = "PackageDecl" -> collectRelations(item.body, 1, ents, st)
           [] OTHER -> st)

(***************************************************************************)
(* Whole-diagram checks, each the list of errors it pushes.                *)
(***************************************************************************)
SpanOfEntity(spans, name) ==
  LET s == spans[CHOOSE i \in 1..Len(spans) : spans[i].name = name]
  IN  [line |-> s.line, col |-> s.col]

CheckSS4(ents, spans) ==
  LET f(e) == IF e.kind = <<"e","n","u","m">> /\ Len(e.enumValues) = 0
              THEN <<SemErr("SS-4", <<"Enum must declare at least one value", e.name>>,
                            e.name, SpanOfEntity(spans, e.name))>>
              ELSE <<>>
  IN  Concat([i \in 1..Len(ents) |-> f(ents[i])])

RECURSIVE DefaultedFields(_, _, _, _)
DefaultedFields(e, i, spans, acc) ==
  IF i > Len(e.fields) THEN acc
  ELSE DefaultedFields(e, i + 1, spans,
         IF e.fields[i].defaultValue # Undefined
         THEN Append(acc, SemErr("SS-5", <<"Interface field cannot have a default value",
                                          e.name, e.fields[i].name>>,
                                 e.name, SpanOfEntity(spans, e.name)))
         ELSE acc)

CheckSS5(ents, spans) ==
  LET f(e) == IF e.kind = <<"i","n","t","e","r","f","a","c","e">>
              THEN DefaultedFields(e, 1, spans, <<>>)
              ELSE <<>>
  IN  Concat([i \in 1..Len(ents) |-> f(ents[i])])

\* the walk with one seen set shared by all the paths: names are visited one after
\* the other, [found, seen]
RECURSIVE WalkShared(_, _, _)
WalkShared(ents, names, seen) ==
  LET Next1(down) == IF down.found THEN down ELSE WalkShared(ents, Tail(names), down.seen)
  IN  IF names = <<>> THEN [found |-> FALSE, seen |-> seen]
      ELSE IF names[1] \in seen THEN [found |-> TRUE, seen |-> seen]
      ELSE IF ~Has(ents, names[1])
      THEN WalkShared(ents, Tail(names), seen \cup {names[1]})
      ELSE Next1(WalkShared(ents, Get(ents, names[1]).extendsNames, seen \cup {names[1]}))

\* hasCircularInheritance handing the same Set to every parent instead of a copy
hasCircularInheritanceSharedSeen(ents, name, seen) == WalkShared(ents, <<name>>, seen).found

\* hasCircularInheritance call by call: [found, calls, deepest, cut] with calls the
\* number of calls made, deepest the longest chain of calls and cut set when a
\* chain is given up at MaxWalkDepth.  `some` stops at the first parent that
\* returns true.
RECURSIVE WalkWithoutSeenAdd(_, _, _, _)
RECURSIVE SomeParentWithoutSeenAdd(_, _, _, _, _)
\* the walk without `seen.add(name)`
WalkWithoutSeenAdd(ents, name, seen, depth) ==
  LET here(found, cut) == [found |-> found, calls |-> 1, deepest |-> depth, cut |-> cut]
  IN  IF depth > MaxWalkDepth THEN here(FALSE, TRUE)
      ELSE IF name \in seen THEN here(TRUE, FALSE)
      ELSE IF ~Has(ents, name) THEN here(FALSE, FALSE)
      ELSE SomeParentWithoutSeenAdd(ents, Get(ents, name).extendsNames, seen, depth,
                                    here(FALSE, FALSE))

SomeParentWithoutSeenAdd(ents, parents, seen, depth, acc) ==
  IF parents = <<>> \/ acc.found \/ acc.cut THEN acc
  ELSE LET r == WalkWithoutSeenAdd(ents, parents[1], seen, depth + 1)
       IN  SomeParentWithoutSeenAdd(ents, Tail(parents), seen, depth,
             [found |-> r.found, calls |-> acc.calls + r.calls,
              deepest |-> IF r.deepest > acc.deepest THEN r.deepest ELSE acc.deepest,
              cut |-> r.cut])

RECURSIVE Walk(_, _, _, _)
RECURSIVE SomeParent(_, _, _, _, _)
\* one call of hasCircularInheritance at the given depth, and the calls below it
Walk(ents, name, seen, depth) ==
  LET here(found, cut) == [found |-> found, calls |-> 1, deepest |-> depth, cut |-> cut]
  IN  IF depth > MaxWalkDepth THEN here(FALSE, TRUE)
      ELSE IF name \in seen THEN here(TRUE, FALSE)
      ELSE IF ~Has(ents, name) THEN here(FALSE, FALSE)
      ELSE SomeParent(ents, Get(ents, name).extendsNames, seen \cup {name}, depth,
                      here(FALSE, FALSE))

\* e.extendsNames.some(parent => hasCircularInheritance(parent, new Set(seen)))
SomeParent(ents, parents, seen, depth, acc) ==
  IF parents = <<>> \/ acc.found \/ acc.cut THEN acc
  ELSE LET r == Walk(ents, parents[1], seen, depth + 1)
       IN  SomeParent(ents, Tail(parents), seen, depth,
             [found |-> r.found, calls |-> acc.calls + r.calls,
              deepest |-> IF r.deepest > acc.deepest THEN r.deepest ELSE acc.deepest,
              cut |-> r.cut])

\* hasCircularInheritance(name, seen): a copy of seen goes down every path
RECURSIVE hasCircularInheritance(_, _, _)
hasCircularInheritance(ents, name, seen) ==
  IF name \in seen THEN TRUE
  ELSE IF ~Has(ents, name) THEN FALSE
  ELSE LET e == Get(ents, name)
       IN  \E k \in 1..Len(e.extendsNames) :
             hasCircularInheritance(ents, e.extendsNames[k], seen \cup {name})

\* the reporting loop from entity i on, with the set reportedInCycle
RECURSIVE CheckSS6(_, _, _, _)
CheckSS6(ents, spans, i, reported) ==
  IF i > Len(ents) THEN <<>>
  ELSE LET e == ents[i] IN
       IF e.name \in reported THEN CheckSS6(ents, spans, i + 1, reported)
       ELSE IF hasCircularInheritance(ents, e.name, {})
       THEN <<SemErr("SS-6", <<"Circular inheritance detected involving", e.name>>,
                     e.name, SpanOfEntity(spans, e.name))>>
            \o CheckSS6(ents, spans, i + 1,
                        reported \cup {e.extendsNames[k] : k \in 1..Len(e.extendsNames)}
                                 \cup {e.name})
       ELSE CheckSS6(ents, spans, i + 1, reported)

RECURSIVE checkStyleTargets(_, _, _)
checkStyleTargets(items, i, ents) ==
  IF i > Len(items) THEN <<>>
  ELSE LET item == items[i] IN
       (IF item.kind = "StyleDecl" /\ ~Has(ents, item.target)
        THEN <<SemErr("SS-7", <<"Style references unknown entity", item.target>>,
                      Undefined, item.span)>>
        ELSE <<>>)
       \o (IF item.kind = "PackageDecl" THEN checkStyleTargets(item.body, 1, ents) ELSE <<>>)
       \o checkStyleTargets(items, i + 1, ents)

\* the loop of SS-8 leaving an enum at its first duplicate value
DuplicateValuesOnce(e, i, spans, seen) ==
  IF \E a, b \in 1..Len(e.enumValues) : a < b /\ e.enumValues[a].name = e.enumValues[b].name
  THEN LET b == CHOOSE b \in 1..Len(e.enumValues) :
                  /\ \E a \in 1..(b - 1) : e.enumValues[a].name = e.enumValues[b].name
                  /\ \A c \in 1..(b - 1) : \A a \in 1..(c - 1) :
                       e.enumValues[a].name # e.enumValues[c].name
       IN  <<SemErr("SS-8", <<"Duplicate enum value", e.enumValues[b].name, e.name>>,
                    e.name, SpanOfEntity(spans, e.name))>>
  ELSE <<>>

\* the loop of SS-8 over the values of an enum from value i on, with the set seen
RECURSIVE DuplicateValues(_, _, _, _)
DuplicateValues(e, i, spans, seen) ==
  IF i > Len(e.enumValues) THEN <<>>
  ELSE (IF e.enumValues[i].name \in seen
        THEN <<SemErr("SS-8", <<"Duplicate enum value", e.enumValues[i].name, e.name>>,
                      e.name, SpanOfEntity(spans, e.name))>>
        ELSE <<>>)
       \o DuplicateValues(e, i + 1, spans, seen \cup {e.enumValues[i].name})

CheckSS8(ents, spans) ==
  LET f(e) == IF e.kind = <<"e","n","u","m">> THEN DuplicateValues(e, 1, spans, {}) ELSE <<>>
  IN  Concat([i \in 1..Len(ents) |-> f(ents[i])])

\* ALLOWED_KINDS with a fall-back to the entry of class for a kind without an entry
ALLOWED_KINDSWithDefault(diagramKind) ==
  CASE diagramKind = <<"u","s","e","c","a","s","e">> ->
         { <<"a","c","t","o","r">>, <<"u","s","e","c","a","s","e">> }
    [] diagramKind = <<"s","e","q","u","e","n","c","e">> ->
         { <<"a","c","t","o","r">> }
    [] diagramKind = <<"c","o","m","p","o","n","e","n","t">> ->
         { <<"c","o","m","p","o","n","e","n","t">> }
    [] diagramKind = <<"d","e","p","l","o","y","m","e","n","t">> ->
         { <<"c","o","m","p","o","n","e","n","t">>, <<"n","o","d","e">> }
    [] OTHER ->
         { <<"c","l","a","s","s">>, <<"i","n","t","e","r","f","a","c","e">>, <<"e","n","u","m">> }

\* ALLOWED_KINDS[diagramKind]; { Undefined } stands for a kind without an entry
ALLOWED_KINDS(diagramKind) ==
  CASE diagramKind = <<"c","l","a","s","s">> ->
         { <<"c","l","a","s","s">>, <<"i","n","t","e","r","f","a","c","e">>, <<"e","n","u","m">> }
    [] diagramKind = <<"u","s","e","c","a","s","e">> ->
         { <<"a","c","t","o","r">>, <<"u","s","e","c","a","s","e">> }
    [] diagramKind = <<"s","e","q","u","e","n","c","e">> ->
         { <<"a","c","t","o","r">> }
    [] diagramKind = <<"c","o","m","p","o","n","e","n","t">> ->
         { <<"c","o","m","p","o","n","e","n","t">> }
    [] diagramKind = <<"d","e","p","l","o","y","m","e","n","t">> ->
         { <<"c","o","m","p","o","n","e","n","t">>, <<"n","o","d","e">> }
    [] OTHER -> { Undefined }

CheckSS9(ents, spans, diagramKind) ==
  LET allowed == ALLOWED_KINDS(diagramKind)
      f(e) == IF e.kind \notin allowed
              THEN <<SemErr("SS-9", <<"Entity kind is not valid in diagrams", e.kind,
                                      diagramKind>>,
                            e.name, SpanOfEntity(spans, e.name))>>
              ELSE <<>>
  IN  IF allowed = { Undefined } THEN <<>> ELSE Concat([i \in 1..Len(ents) |-> f(ents[i])])

RECURSIVE checkLayoutTargets(_, _, _)
checkLayoutTargets(items, i, ents) ==
  IF i > Len(items) THEN <<>>
  ELSE LET item == items[i] IN
       (IF item.kind = "LayoutAnnotation" /\ ~Has(ents, item.entity)
        THEN <<SemErr("SS-10", <<"Layout annotation references unknown entity", item.entity>>,
                      Undefined, item.span)>>
        ELSE <<>>)
       \o (IF item.kind = "PackageDecl" THEN checkLayoutTargets(item.body, 1, ents) ELSE <<>>)
       \o checkLayoutTargets(items, i + 1, ents)

(***************************************************************************)
(* analyze(program): the diagrams one after the other, each in its passes. *)
(***************************************************************************)
Diag == program.diagrams[diagIdx]

\* analyze() is called with the program
AnalyzeStart ==
  /\ phase = "parsed"
  /\ phase' = "analyze"
  /\ program' = result.program
  /\ diagIdx' = 1
  /\ astep' = "begin"
  /\ semErrors' = <<>>
  /\ iomDiagrams' = <<>>
  /\ UNCHANGED <<calls, dropped, lexVars, parseVars, entities, entitySpans, relations, packages, notes>>

\* analyzeDiagram with the entities Map made once for all the diagrams
CollectPassSharedEntities ==
  /\ phase = "analyze" /\ astep = "begin"
  /\ diagIdx <= Len(program.diagrams)
  /\ LET st == collectItems(Diag.body, 1, Undefined,
                 [entities |-> entities, spans |-> entitySpans, notes |-> <<>>,
                  packages |-> <<>>, errs |-> semErrors])
     IN  /\ entities' = st.entities
         /\ entitySpans' = st.spans
         /\ notes' = st.notes
         /\ packages' = st.packages
         /\ semErrors' = st.errs
  /\ relations' = <<>>
  /\ astep' = "collected"
  /\ UNCHANGED <<calls, dropped, phase, lexVars, parseVars, program, diagIdx, iomDiagrams>>

\* analyzeDiagram: first pass, collectItems(diag.body)
CollectPass ==
  /\ phase = "analyze" /\ astep = "begin"
  /\ diagIdx <= Len(program.diagrams)
  /\ LET st == collectItems(Diag.body, 1, Undefined,
                 [entities |-> <<>>, spans |-> <<>>, notes |-> <<>>, packages |-> <<>>,
                  errs |-> semErrors])
     IN  /\ entities' = st.entities
         /\ entitySpans' = st.spans
         /\ notes' = st.notes
         /\ packages' = st.packages
         /\ semErrors' = st.errs
  /\ relations' = <<>>
  /\ astep' = "collected"
  /\ UNCHANGED <<calls, dropped, phase, lexVars, parseVars, program, diagIdx, iomDiagrams>>

\* second sweep: notes whose entity was declared after them
NotesPass ==
  /\ phase = "analyze" /\ astep = "collected"
  /\ entities' = attachNotes(notes, 1, entities)
  /\ astep' = "notes"
  /\ UNCHANGED <<calls, dropped, phase, lexVars, parseVars, program, diagIdx, iomDiagrams, semErrors,
                 entitySpans, relations, packages, notes>>

\* second pass: collectRelations(diag.body)
RelationsPass ==
  /\ phase = "analyze" /\ astep = "notes"
  /\ LET st == collectRelations(Diag.body, 1, entities,
                                [relations |-> <<>>, errs |-> semErrors])
     IN  /\ relations' = st.relations
         /\ semErrors' = st.errs
  /\ astep' = "relations"
  /\ UNCHANGED <<calls, dropped, phase, lexVars, parseVars, program, diagIdx, iomDiagrams,
                 entities, entitySpans, packages, notes>>

\* SS-4 .. SS-10 and the return of analyzeDiagram
ChecksPass ==
  /\ phase = "analyze" /\ astep = "relations"
  /\ semErrors' = semErrors
       \o CheckSS4(entities, entitySpans)
       \o CheckSS5(entities, entitySpans)
       \o CheckSS6(entities, entitySpans, 1, {})
       \o checkStyleTargets(Diag.body, 1, entities)
       \o CheckSS8(entities, entitySpans)
       \o CheckSS9(entities, entitySpans, Diag.diagramKind)
       \o checkLayoutTargets(Diag.body, 1, entities)
  /\ iomDiagrams' = Append(iomDiagrams,
       [name |-> Diag.name, kind |-> Diag.diagramKind, entities |-> entities,
        relations |-> relations, packages |-> packages, notes |-> notes])
  /\ diagIdx' = diagIdx + 1
  /\ astep' = "begin"
  /\ UNCHANGED <<calls, dropped, phase, lexVars, parseVars, program, entities, entitySpans, relations,
                 packages, notes>>

\* analyze returns { iom, errors }
AnalyzeFinish ==
  /\ phase = "analyze" /\ astep = "begin"
  /\ diagIdx > Len(program.diagrams)
  /\ phase' = "done"
  /\ UNCHANGED <<calls, dropped, lexVars, parseVars, anVars>>

(***************************************************************************)
(* Inputs of the parser: token lists as the lexer lays them out (one space *)
(* between tokens, one line), a fixed prefix that leads into one of the    *)
(* loops followed by a free tail, and the EOF token.                       *)
(***************************************************************************)
TokenText(kind) ==
  CASE kind = "IDENT"   -> <<"A">>
    [] kind = "STRING"  -> <<"s">>
    [] kind = "NUMBER"  -> <<"1">>
    [] kind = "COLOR"   -> <<"#","a","a","a","a","a","a">>
    [] kind = "UNKNOWN" -> <<"?">>
    [] kind = "EOF"     -> <<>>
    [] kind = "string_t" -> <<"s","t","r","i","n","g">>
    [] \E k \in KeywordName : k.name = kind ->
         (CHOOSE k \in KeywordName : k.name = kind).text
    [] \E i \in 1..Len(OperatorTable) : OperatorTable[i].kind = kind ->
         OperatorTable[CHOOSE i \in 1..Len(OperatorTable) : OperatorTable[i].kind = kind].lit
    [] OTHER -> <<CHOOSE c \in DOMAIN SingleCharKind : SingleCharKind[c] = kind>>

RECURSIVE LayOut(_, _)
LayOut(kinds, start) ==
  IF kinds = <<>> THEN <<>>
  ELSE LET end == start + Len(TokenText(kinds[1]))
       IN  <<[kind |-> kinds[1], value |-> TokenText(kinds[1]), start |-> start, end |-> end,
              line |-> 1, col |-> start + 1]>>
           \o LayOut(Tail(kinds), IF Len(kinds) = 2 THEN end ELSE end + 1)

DiagramPrefix == <<"diagram", "IDENT", "COLON", "class", "LBRACE">>

ParserFamilies ==
  { [prefix |-> <<>>,
     tail   |-> {"diagram", "IDENT", "COLON", "class", "LBRACE", "RBRACE"}],
    [prefix |-> DiagramPrefix,
     tail   |-> {"class", "IDENT", "LBRACE", "RBRACE", "ASSOC", "package", "RPAREN"}],
    [prefix |-> DiagramPrefix \o <<"class", "IDENT", "LBRACE">>,
     tail   |-> {"IDENT", "COLON", "LPAREN", "RPAREN", "SEMI", "RBRACE", "int"}],
    [prefix |-> DiagramPrefix \o <<"class", "IDENT", "LBRACE", "IDENT", "COLON">>,
     tail   |-> {"IDENT", "LT", "GT", "COMMA", "UNKNOWN", "STEREO_C", "RBRACE"}],
    [prefix |-> DiagramPrefix \o <<"IDENT", "ASSOC", "IDENT", "LBRACKET">>,
     tail   |-> {"IDENT", "EQ", "STRING", "COMMA", "RBRACKET", "RPAREN"}],
    [prefix |-> DiagramPrefix \o <<"style", "IDENT", "LBRACE">>,
     tail   |-> {"IDENT", "EQ", "STRING", "COLOR", "SEMI", "RBRACE", "RPAREN"}] }


(***************************************************************************)
(* Inputs of the analyzer: one class diagram whose body is drawn from a    *)
(* fixed set of items; spans number the items by their place.              *)
(***************************************************************************)
NameA == <<"A">>
NameB == <<"B">>
TextClass == <<"c","l","a","s","s">>
TextEnum  == <<"e","n","u","m">>
ZeroSpan  == [start |-> 0, end |-> 0, line |-> 0, col |-> 0]

SimpleTypeOf(name) == [kind |-> "SimpleType", name |-> name, span |-> ZeroSpan]

FieldOf(name, type) ==
  [kind |-> "FieldDecl", visibility |-> <<"+">>, modifiers |-> <<>>, name |-> name,
   type |-> SimpleTypeOf(type), defaultValue |-> UndefinedNode, span |-> ZeroSpan]

EntityOf(entityKind, name, members) ==
  [kind |-> "EntityDecl", modifiers |-> <<>>, entityKind |-> entityKind, name |-> name,
   stereotype |-> Undefined, extendsClause |-> <<>>, implementsClause |-> <<>>,
   members |-> members, span |-> ZeroSpan]

PackageOf(name, body) == [kind |-> "PackageDecl", name |-> name, body |-> body, span |-> ZeroSpan]

ClassA == EntityOf(TextClass, NameA, <<FieldOf(<<"x">>, <<"i","n","t">>)>>)
EnumA  == EntityOf(TextEnum, NameA, <<>>)
ClassB == EntityOf(TextClass, NameB, <<>>)

LeafItems ==
  { ClassA, EnumA, ClassB,
    [kind |-> "NoteDecl", text |-> <<"n">>, on |-> NameA, span |-> ZeroSpan],
    [kind |-> "RelationDecl", from |-> NameA, relKind |-> <<"-","-">>, to |-> NameB,
     label |-> Undefined, fromMult |-> Undefined, toMult |-> Undefined, style |-> EmptyMap,
     span |-> ZeroSpan],
    [kind |-> "StyleDecl", target |-> NameA, styles |-> MapSet(EmptyMap, <<"c">>, <<"r">>),
     span |-> ZeroSpan],
    [kind |-> "LayoutAnnotation", entity |-> NameA, x |-> parseFloat(<<"1">>),
     y |-> parseFloat(<<"2">>), span |-> ZeroSpan] }

PackageItems ==
  { PackageOf(<<"P">>, <<ClassA>>),
    PackageOf(<<"P">>, <<EnumA, ClassB>>),
    PackageOf(<<"Q">>, <<PackageOf(<<"P">>, <<EnumA>>), ClassB>>),
    PackageOf(<<"Q">>, <<>>) }

\* item i of a body is on line base + i, the items of a package on the lines after 10 * that
RECURSIVE Stamp(_, _)
Stamp(items, base) ==
  [i \in 1..Len(items) |->
     LET sp == [start |-> base + i, end |-> base + i + 1, line |-> base + i, col |-> 1]
     IN  IF items[i].kind = "PackageDecl"
         THEN [items[i] EXCEPT !.span = sp, !.body = Stamp(@, 10 * (base + i))]
         ELSE [items[i] EXCEPT !.span = sp]]

ProgramOf(bodies) ==
  [kind |-> "Program", imports |-> <<>>,
   diagrams |-> [d \in 1..Len(bodies) |->
                   [kind |-> "DiagramDecl", name |-> <<"D">>, diagramKind |-> TextClass,
                    body |-> Stamp(bodies[d], 100 * d), span |-> ZeroSpan]],
   span |-> ZeroSpan]

BodyItems == LeafItems \cup PackageItems

(***************************************************************************)
(* Further programs for the analyzer, one family for each group of rules;  *)
(* a program of a family has one diagram.                                  *)
(***************************************************************************)
NameGhost == <<"G","h","o","s","t">>
NameH     == <<"H">>

RelationOf(from, to) ==
  [kind |-> "RelationDecl", from |-> from, relKind |-> <<"-","-">>, to |-> to,
   label |-> Undefined, fromMult |-> Undefined, toMult |-> Undefined, style |-> EmptyMap,
   span |-> ZeroSpan]

NoteOf(text, on) == [kind |-> "NoteDecl", text |-> text, on |-> on, span |-> ZeroSpan]

DiagramOf(diagramKind, body) ==
  [kind |-> "Program", imports |-> <<>>,
   diagrams |-> <<[kind |-> "DiagramDecl", name |-> <<"D">>, diagramKind |-> diagramKind,
                   body |-> Stamp(body, 100), span |-> ZeroSpan]>>,
   span |-> ZeroSpan]

\* relations with endpoints declared before, after, in a package, or nowhere
RelationItems ==
  { ClassA, ClassB,
    RelationOf(NameA, NameB),
    RelationOf(NameA, NameGhost),
    RelationOf(NameGhost, NameH),
    PackageOf(<<"P">>, <<RelationOf(NameB, NameA)>>),
    PackageOf(<<"P">>, <<ClassB, RelationOf(NameGhost, NameB)>>) }

\* notes on an entity declared before, between or after them
NoteItems ==
  { ClassA, ClassB,
    NoteOf(<<"n">>, NameA),
    NoteOf(<<"m">>, NameA),
    NoteOf(<<>>, NameA),
    NoteOf(<<"n">>, Undefined),
    PackageOf(<<"P">>, <<NoteOf(<<"m">>, NameA)>>) }

NameC == <<"C">>
NameD == <<"D">>

Extending(name, parents) == [EntityOf(TextClass, name, <<>>) EXCEPT !.extendsClause = parents]

\* extends edges: none, a self-loop, cycles of two and three, a diamond, an edge to
\* an undeclared name
ExtendsItems ==
  { Extending(NameA, <<>>),
    Extending(NameA, <<NameA>>),
    Extending(NameA, <<NameB>>),
    Extending(NameB, <<NameA>>),
    Extending(NameB, <<NameC>>),
    Extending(NameC, <<NameA>>),
    Extending(NameD, <<NameB, NameC>>),
    PackageOf(<<"P">>, <<Extending(NameB, <<NameA>>), Extending(NameC, <<NameA>>)>>) }

TextInt       == <<"i","n","t">>
TextAbstract  == <<"a","b","s","t","r","a","c","t">>
TextFinal     == <<"f","i","n","a","l">>
TextInterface == <<"i","n","t","e","r","f","a","c","e">>

MethodOf(name, paramNames) ==
  [kind |-> "MethodDecl", visibility |-> <<"+">>, modifiers |-> <<>>, name |-> name,
   params |-> [i \in 1..Len(paramNames) |->
                 [name |-> paramNames[i], type |-> SimpleTypeOf(TextInt)]],
   returnType |-> SimpleTypeOf(<<"v","o","i","d">>), span |-> ZeroSpan]

EnumOf(name, valueNames) ==
  EntityOf(TextEnum, name,
           [i \in 1..Len(valueNames) |->
              [kind |-> "EnumValueDecl", name |-> valueNames[i], span |-> ZeroSpan]])

DefaultedFieldOf(name) ==
  [FieldOf(name, TextInt) EXCEPT
     !.defaultValue = [kind |-> "Literal", type |-> "number", value |-> parseFloat(<<"1">>),
                       span |-> ZeroSpan]]

\* declarations that break one of the rules on entities and members, and some that
\* break none
EntityItems ==
  { ClassA,
    EnumA,
    EnumOf(NameA, <<<<"X">>, <<"X">>>>),
    EnumOf(NameB, <<<<"X">>, <<"Y">>, <<"X">>, <<"X">>>>),
    EnumOf(NameC, <<<<"X">>, <<"Y">>>>),
    EntityOf(TextClass, NameA, <<FieldOf(<<"x">>, TextInt), MethodOf(<<"x">>, <<>>)>>),
    EntityOf(TextInterface, NameB, <<DefaultedFieldOf(<<"x">>)>>),
    [EntityOf(TextClass, NameB, <<>>) EXCEPT !.modifiers = <<TextAbstract, TextFinal>>],
    [EntityOf(TextInterface, NameC, <<>>) EXCEPT !.modifiers = <<TextFinal>>],
    EntityOf(TextClass, NameB, <<MethodOf(<<"m">>, <<<<"p">>, <<"q">>, <<"p">>>>)>>),
    [EntityOf(TextClass, NameC, <<MethodOf(<<"m">>, <<<<"p">>, <<"q">>>>)>>) EXCEPT
       !.extendsClause = <<NameGhost, NameA, NameH>>,
       !.implementsClause = <<NameB, NameGhost>>] }

TextUsecase    == <<"u","s","e","c","a","s","e">>
TextSequence   == <<"s","e","q","u","e","n","c","e">>
TextComponent  == <<"c","o","m","p","o","n","e","n","t">>
TextDeployment == <<"d","e","p","l","o","y","m","e","n","t">>
TextFlow       == <<"f","l","o","w">>
TextActor      == <<"a","c","t","o","r">>
TextNode       == <<"n","o","d","e">>

DiagramKindTexts ==
  { TextClass, TextUsecase, TextSequence, TextComponent, TextDeployment, TextFlow }

\* one entity of every kind, named after its kind, and a second declaration of a name
KindItems ==
  { EntityOf(k, k, <<>>) :
      k \in { TextClass, TextInterface, TextActor, TextUsecase, TextComponent, TextNode } }
  \cup { EnumOf(TextEnum, <<<<"V">>>>), EntityOf(TextActor, TextClass, <<>>) }

(***************************************************************************)
(* Sources of the whole pipeline parse(source), analyze(program).          *)
(***************************************************************************)
\* diagram D:class{class C{+t:Map<string, List<int>>}}
SrcNestedGeneric ==
  <<"d","i","a","g","r","a","m"," ","D",":","c","l","a","s","s","{","c","l","a","s","s"," ",
    "C","{","+","t",":","M","a","p","<","s","t","r","i","n","g",","," ","L","i","s","t","<",
    "i","n","t",">",">","}","}">>

\* diagram D:class{class C{+n:string?}}
SrcNullable ==
  <<"d","i","a","g","r","a","m"," ","D",":","c","l","a","s","s","{","c","l","a","s","s"," ",
    "C","{","+","n",":","s","t","r","i","n","g","?","}","}">>

\* diagram D:class{class C{+i:List<string>?}}
SrcNullableGeneric ==
  <<"d","i","a","g","r","a","m"," ","D",":","c","l","a","s","s","{","c","l","a","s","s"," ",
    "C","{","+","i",":","L","i","s","t","<","s","t","r","i","n","g",">","?","}","}">>

\* diagram D:class{class A{} @A at (-100, -50)}
SrcNegativeLayout ==
  <<"d","i","a","g","r","a","m"," ","D",":","c","l","a","s","s","{","c","l","a","s","s"," ",
    "A","{","}"," ","@","A"," ","a","t"," ","(","-","1","0","0",","," ","-","5","0",")","}">>

\* diagram D:class{class A{} class A{}}
SrcDuplicate ==
  <<"d","i","a","g","r","a","m"," ","D",":","c","l","a","s","s","{","c","l","a","s","s"," ",
    "A","{","}"," ","c","l","a","s","s"," ","A","{","}","}">>

\* diagram D:class{class A{)}}
SrcStrayParen ==
  <<"d","i","a","g","r","a","m"," ","D",":","c","l","a","s","s","{","c","l","a","s","s"," ",
    "A","{",")","}","}">>

\* import "b"; diagram D:class{package P{abstract class A<<E>> extends B implements I{+x:int=1; m(a:int):void} enum E{X X}} A --> B [label="l",k="v"] note "n" on A style A{c=#aaaaaa;w="2"} @A at (1,2)} ^
SrcTour ==
  <<"i","m","p","o","r","t"," ","\"","b","\"",";"," ","d","i","a","g","r","a","m"," ","D",":",
    "c","l","a","s","s","{","p","a","c","k","a","g","e"," ","P","{","a","b","s","t","r","a",
    "c","t"," ","c","l","a","s","s"," ","A","<","<","E",">",">"," ","e","x","t","e","n","d",
    "s"," ","B"," ","i","m","p","l","e","m","e","n","t","s"," ","I","{","+","x",":","i","n",
    "t","=","1",";"," ","m","(","a",":","i","n","t",")",":","v","o","i","d","}"," ","e","n",
    "u","m"," ","E","{","X"," ","X","}","}"," ","A"," ","-","-",">"," ","B"," ","[","l","a",
    "b","e","l","=","\"","l","\"",",","k","=","\"","v","\"","]"," ","n","o","t","e"," ","\"","n",
    "\""," ","o","n"," ","A"," ","s","t","y","l","e"," ","A","{","c","=","#","a","a","a","a",
    "a","a",";","w","=","\"","2","\"","}"," ","@","A"," ","a","t"," ","(","1",",","2",")","}",
    " ","^">>

PipelineSources ==
  { SrcNestedGeneric,
    SrcNullable,
    SrcNullableGeneric,
    SrcNegativeLayout,
    SrcDuplicate,
    SrcStrayParen,
    SrcTour }

(***************************************************************************)
(* Specifications.                                                         *)
(***************************************************************************)
NextLex == LexStep \/ LexFinish

NextParse ==
  \/ ParseStart \/ DiagramListIter \/ ParseFinish
  \/ BodyIter \/ BodyExit
  \/ MemberIter \/ MemberExit
  \/ AttrIter \/ AttrExit
  \/ StyleIter \/ StyleExit

NextAnalyze ==
  \/ AnalyzeStart \/ CollectPass \/ NotesPass \/ RelationsPass \/ ChecksPass \/ AnalyzeFinish

\* lex(source) on every source of the lexer families
InitLex ==
  \/ \E ps \in SeqsUpTo(OpPieces, MaxPieces) : LexStart(Concat(ps))
  \/ \E s \in SeqsUpTo(TextChars, MaxTextLen) : LexStart(s)
  \/ \E s \in ColorSources : LexStart(s)
SpecLex == InitLex /\ [][NextLex]_vars

\* new Parser(tokens).parse() on every token list of the parser families
InitParser ==
  /\ phase = "lexed"
  /\ source = <<>> /\ pos = 0 /\ line = 1 /\ lineStart = 0 /\ errors = <<>>
  /\ \E f \in ParserFamilies : \E t \in SeqsUpTo(f.tail, MaxTail) :
       tokens = LayOut(f.prefix \o t \o <<"EOF">>, 0)
  /\ ParserIdle
  /\ AnalyzerIdle
  /\ calls = OneCall
  /\ dropped = <<>>
SpecParser == InitParser /\ [][NextParse]_vars

\* analyze(program) on every program of the analyzer family
InitAnalyze ==
  /\ phase = "parsed"
  /\ source = <<>> /\ pos = 0 /\ line = 1 /\ lineStart = 0 /\ errors = <<>>
  /\ tokens = <<>> /\ ppos = 0 /\ perrors = <<>> /\ pstack = <<>>
  /\ \/ \E b \in SeqsUpTo(BodyItems, MaxItems) :
          result = [program |-> ProgramOf(<<b>>), errors |-> <<>>]
     \/ \E b \in SeqsUpTo(BodyItems, MaxItems - 1) :
          result = [program |-> ProgramOf(<<<<ClassA>>, b>>), errors |-> <<>>]
  /\ AnalyzerIdle
  /\ calls = OneCall
  /\ dropped = <<>>
SpecAnalyze == InitAnalyze /\ [][NextAnalyze]_vars

\* the whole pipeline on the fixed sources
Init == \E s \in PipelineSources : LexStart(s)
Next == NextLex \/ NextParse \/ NextAnalyze
Spec == Init /\ [][Next]_vars

\* analyze(program) is about to be called
AnalyzeOf(prog) ==
  /\ phase = "parsed"
  /\ source = <<>> /\ pos = 0 /\ line = 1 /\ lineStart = 0 /\ errors = <<>>
  /\ tokens = <<>> /\ ppos = 0 /\ perrors = <<>> /\ pstack = <<>>
  /\ result = [program |-> prog, errors |-> <<>>]
  /\ AnalyzerIdle
  /\ calls = OneCall
  /\ dropped = <<>>

\* analyze(program) on the programs of the relation family
InitRelations == \E b \in SeqsUpTo(RelationItems, MaxItems) : AnalyzeOf(DiagramOf(TextClass, b))
SpecRelations == InitRelations /\ [][NextAnalyze]_vars

\* analyze(program) on the programs of the note family
InitNotes == \E b \in SeqsUpTo(NoteItems, MaxItems) : AnalyzeOf(DiagramOf(TextClass, b))
SpecNotes == InitNotes /\ [][NextAnalyze]_vars

\* analyze(program) on the programs of the inheritance family
InitExtends == \E b \in SeqsUpTo(ExtendsItems, MaxItems) : AnalyzeOf(DiagramOf(TextClass, b))
SpecExtends == InitExtends /\ [][NextAnalyze]_vars

\* analyze(program) on the programs of the entity family
InitEntities == \E b \in SeqsUpTo(EntityItems, MaxItems) : AnalyzeOf(DiagramOf(TextClass, b))
SpecEntities == InitEntities /\ [][NextAnalyze]_vars

\* analyze(program) on the diagrams of every kind over the entity kinds
InitKinds ==
  \E k \in DiagramKindTexts : \E b \in SeqsUpTo(KindItems, MaxKindItems) :
    AnalyzeOf(DiagramOf(k, b))
SpecKinds == InitKinds /\ [][NextAnalyze]_vars


\* diagram D:class{class A{+x:int} A--A[k="v"] style A{c="r"}}
SrcStyled ==
  <<"d","i","a","g","r","a","m"," ","D",":","c","l","a","s","s","{","c","l","a","s","s"," ",
    "A","{","+","x",":","i","n","t","}"," ","A","-","-","A","[","k","=","\"","v","\"","]"," ",
    "s","t","y","l","e"," ","A","{","c","=","\"","r","\"","}","}">>

(***************************************************************************)
(* Two calls in flight.  lex keeps its state in the locals of one call     *)
(* (tokens, errors, pos, line, lineStart), a Parser in the fields of one   *)
(* instance made per call, analyze in the locals of analyze and of         *)
(* analyzeDiagram; the module-level KEYWORDS, KEYWORD_MAP and ALLOWED_KINDS*)
(* are never written.  The call that runs has its state in the variables   *)
(* of the module, the other one waits in calls.suspended.                  *)
(***************************************************************************)
\* the state of the running call
Frame ==
  [phase |-> phase, source |-> source, pos |-> pos, line |-> line, lineStart |-> lineStart,
   tokens |-> tokens, errors |-> errors, ppos |-> ppos, perrors |-> perrors,
   pstack |-> pstack, result |-> result, program |-> program, diagIdx |-> diagIdx,
   astep |-> astep, semErrors |-> semErrors, iomDiagrams |-> iomDiagrams,
   entities |-> entities, entitySpans |-> entitySpans, relations |-> relations,
   packages |-> packages, notes |-> notes]

\* the state of a call that is entered with source s
NewCall(s) ==
  [phase |-> "lex", source |-> s, pos |-> 0, line |-> 1, lineStart |-> 0,
   tokens |-> <<>>, errors |-> <<>>, ppos |-> 0, perrors |-> <<>>,
   pstack |-> <<>>, result |-> [program |-> [kind |-> "undefined"], errors |-> <<>>],
   program |-> [kind |-> "undefined"], diagIdx |-> 0,
   astep |-> "idle", semErrors |-> <<>>, iomDiagrams |-> <<>>,
   entities |-> <<>>, entitySpans |-> <<>>, relations |-> <<>>,
   packages |-> <<>>, notes |-> <<>>]

\* the analyzer's part of a call is put back
ResumeAnalyzer(f) ==
  /\ program' = f.program /\ diagIdx' = f.diagIdx /\ astep' = f.astep
  /\ semErrors' = f.semErrors /\ iomDiagrams' = f.iomDiagrams
  /\ entities' = f.entities /\ entitySpans' = f.entitySpans
  /\ relations' = f.relations /\ packages' = f.packages /\ notes' = f.notes

\* the call f goes on
Resume(f) ==
  /\ phase' = f.phase /\ source' = f.source /\ pos' = f.pos /\ line' = f.line
  /\ lineStart' = f.lineStart /\ tokens' = f.tokens /\ errors' = f.errors
  /\ ppos' = f.ppos /\ perrors' = f.perrors /\ pstack' = f.pstack /\ result' = f.result
  /\ ResumeAnalyzer(f)

\* what the three stages of a call have returned
Outcome(f) ==
  [lexed    |-> [tokens |-> f.tokens, errors |-> f.errors],
   parsed   |-> f.result,
   analysed |-> [diagrams |-> f.iomDiagrams, errors |-> f.semErrors]]

\* the call is between two of its steps: entered, and not yet returned
InFlight(f) == f.phase # "done" /\ f # NewCall(f.source)

\* a call that ran alone returns; the next one is entered, and after both
\* have run alone the two are entered together
CallReturns ==
  /\ calls.stage \in {1, 2}
  /\ phase = "done"
  /\ calls' = [calls EXCEPT !.stage = @ + 1,
                            !.alone = Append(@, Outcome(Frame)),
                            !.suspended = IF calls.stage = 2
                                          THEN <<NewCall(calls.inputs[2])>> ELSE <<>>]
  /\ Resume(NewCall(calls.inputs[IF calls.stage = 1 THEN 2 ELSE 1]))
  /\ UNCHANGED dropped

\* a module-level `errors` array in the lexer: it stays where it is when the
\* other call goes on
SwitchSharedErrors ==
  /\ calls.stage = 3
  /\ calls' = [calls EXCEPT !.running = 3 - @,
                            !.suspended = <<Frame>>,
                            !.overlapped = @ \/ (InFlight(Frame)
                                                 /\ InFlight(calls.suspended[1]))]
  /\ LET f == calls.suspended[1] IN
     /\ phase' = f.phase /\ source' = f.source /\ pos' = f.pos /\ line' = f.line
     /\ lineStart' = f.lineStart /\ tokens' = f.tokens /\ errors' = errors
     /\ ppos' = f.ppos /\ perrors' = f.perrors /\ pstack' = f.pstack /\ result' = f.result
     /\ ResumeAnalyzer(f)
  /\ UNCHANGED dropped

\* between two steps of the running call the other call takes its turn
Switch ==
  /\ calls.stage = 3
  /\ calls' = [calls EXCEPT !.running = 3 - @,
                            !.suspended = <<Frame>>,
                            !.overlapped = @ \/ (InFlight(Frame)
                                                 /\ InFlight(calls.suspended[1]))]
  /\ Resume(calls.suspended[1])
  /\ UNCHANGED dropped

\* the sources of the two calls
CallSources == {SrcNullable, SrcDuplicate, SrcStyled}

\* two calls on different sources: each alone, then together
InitCalls ==
  \E s1 \in CallSources : \E s2 \in CallSources \ {s1} :
    /\ phase = "lex" /\ source = s1 /\ pos = 0 /\ line = 1 /\ lineStart = 0
    /\ tokens = <<>> /\ errors = <<>>
    /\ ParserIdle
    /\ AnalyzerIdle
    /\ calls = [OneCall EXCEPT !.stage = 1, !.inputs = <<s1, s2>>]
    /\ dropped = <<>>
NextCalls == NextLex \/ NextParse \/ NextAnalyze \/ CallReturns \/ Switch
SpecCalls == InitCalls /\ [][NextCalls]_vars

(***************************************************************************)
(* App: an entity of the diagram shown is dropped on the canvas, and the   *)
(* source is rewritten and analysed again.                                 *)
(***************************************************************************)
\* String(n) of an integer
NumberText(n) == IF n < 0 THEN <<"-">> \o NatToText(0 - n) ELSE NatToText(n)

\* the end of a run \s* at p
RECURSIVE SkipSpaces(_, _)
SkipSpaces(s, p) ==
  IF CharAt(s, p) \in {" ", "\t", "\n", "\r"} THEN SkipSpaces(s, p + 1) ELSE p

\* s.indexOf(c, p), Len(s) when there is none
RECURSIVE IndexFrom(_, _, _)
IndexFrom(s, c, p) ==
  IF p >= Len(s) \/ CharAt(s, p) = c THEN p ELSE IndexFrom(s, c, p + 1)

\* where a match of @name\s+at\s+\([^)]+\) that starts at p ends, -1 if none does
AnnotationEnd(s, p, name) ==
  LET a     == p + 1 + Len(name)
      b     == SkipSpaces(s, a)
      c     == SkipSpaces(s, b + 2)
      close == IndexFrom(s, ")", c + 1)
  IN  IF /\ StartsWith(s, p, <<"@">> \o name)
         /\ b > a
         /\ StartsWith(s, b, <<"a","t">>)
         /\ c > b + 2
         /\ CharAt(s, c) = "("
         /\ close < Len(s)
         /\ close > c + 1
      THEN close + 1 ELSE -1

\* s.lastIndexOf(c), -1 when there is none
RECURSIVE LastIndexFrom(_, _, _)
LastIndexFrom(s, c, p) ==
  IF p < 0 \/ CharAt(s, p) = c THEN p ELSE LastIndexFrom(s, c, p - 1)

\* the updater handed to setSource
handleEntityMove(s, name, x, y) ==
  LET newAnnotation == <<"@">> \o name \o <<" ","a","t"," ","(">> \o NumberText(x)
                         \o <<","," ">> \o NumberText(y) \o <<")">>
      matches   == { p \in 0..(Len(s) - 1) : AnnotationEnd(s, p, name) # -1 }
      first     == CHOOSE p \in matches : \A q \in matches : p <= q
      replaced  == IF matches = {} THEN s
                   ELSE Slice(s, 0, first) \o newAnnotation
                          \o Slice(s, AnnotationEnd(s, first, name), Len(s))
      lastBrace == LastIndexFrom(s, "}", Len(s) - 1)
  IN  IF replaced # s THEN replaced
      ELSE IF lastBrace < 0 THEN s
      ELSE Slice(s, 0, lastBrace) \o <<" ", " ">> \o newAnnotation \o <<"\n">>
             \o Slice(s, lastBrace, Len(s))

\* where the canvas lets an entity be dropped
DropCoordinates == {-5, 3, 12}

\* onMouseUp: an entity of the diagram shown is dropped at (x, y); the new
\* source is parsed and analysed
HandleEntityMove ==
  /\ phase = "done"
  /\ dropped = <<>>
  /\ \E d \in 1..Len(iomDiagrams) : \E i \in 1..Len(iomDiagrams[d].entities) :
     \E x \in DropCoordinates : \E y \in DropCoordinates :
       LET name == iomDiagrams[d].entities[i].name IN
       /\ dropped' = <<[diagram |-> d, name |-> name, x |-> x, y |-> y]>>
       /\ Resume(NewCall(handleEntityMove(source, name, x, y)))
  /\ UNCHANGED calls

\* diagram D:class{class A{}}
SrcUnplaced ==
  <<"d","i","a","g","r","a","m"," ","D",":","c","l","a","s","s","{","c","l","a","s","s"," ",
    "A","{","}","}">>

\* diagram D:class{class A{} @A at (1,2)}
SrcPlaced ==
  <<"d","i","a","g","r","a","m"," ","D",":","c","l","a","s","s","{","c","l","a","s","s"," ",
    "A","{","}"," ","@","A"," ","a","t"," ","(","1",",","2",")","}">>

\* diagram D:class{class A{}} diagram E:class{class B{}}
SrcTwoDiagrams ==
  <<"d","i","a","g","r","a","m"," ","D",":","c","l","a","s","s","{","c","l","a","s","s"," ",
    "A","{","}","}"," ","d","i","a","g","r","a","m"," ","E",":","c","l","a","s","s","{","c",
    "l","a","s","s"," ","B","{","}","}">>

\* the App with a source in the editor; one entity is dropped
InitMove == \E s \in {SrcUnplaced, SrcPlaced, SrcTwoDiagrams, SrcStyled} : LexStart(s)
NextMove == NextLex \/ NextParse \/ NextAnalyze \/ HandleEntityMove
SpecMove == InitMove /\ [][NextMove]_vars

(***************************************************************************)
(* Properties.                                                             *)
(***************************************************************************)
TokenAt(i) == tokens[i]

\* C1: every iteration of the main scanning loop of lex strictly advances the
\* scan position, so the loop ends after finitely many iterations.
LexIterationAdvances ==
  [][(phase = "lex" /\ pos < Len(source)) => pos' > pos]_vars

\* the loop of the innermost parse function in progress would run another iteration
LoopContinues ==
  /\ phase = "parse"
  /\ pstack # <<>>
  /\ ~At(ppos, "EOF")
  /\ \/ Top.frame = "diagrams"
     \/ Top.frame \in {"body", "members", "styles"} /\ ~At(ppos, "RBRACE")
     \/ Top.frame = "attrs" /\ ~At(ppos, "RBRACKET")

\* C2: every iteration of each parsing loop (diagram list, diagram/package body,
\* member list, relation attribute list, style block) consumes at least one token.
ParseIterationConsumes ==
  [][LoopContinues => ppos' > ppos]_vars

EofTokens == { i \in 1..Len(tokens) : tokens[i].kind = "EOF" }

\* C3: the scan position never exceeds the source length, and the token list lex
\* returns holds exactly one EOF token, last, with start = end = the source length.
LexEndsWithEofAtLength ==
  /\ pos <= Len(source)
  /\ phase = "lexed" =>
       /\ EofTokens = { Len(tokens) }
       /\ tokens[Len(tokens)].start = Len(source)
       /\ tokens[Len(tokens)].end = Len(source)

\* C4: a token that starts at a '-' immediately followed by a digit is one NUMBER
\* token whose value is the sign and the digits; no MINUS token and no error.
NegativeNumberIsOneToken ==
  /\ \A i \in 1..Len(tokens) :
       LET t == tokens[i] IN
       (t.kind # "EOF" /\ CharAt(source, t.start) = "-" /\ IsDigit(CharAt(source, t.start + 1)))
         => /\ t.kind = "NUMBER"
            /\ t.end >= t.start + 2
            /\ t.value = Slice(source, t.start, t.end)
  /\ \A i \in 1..Len(errors) : CharAt(source, errors[i].pos) # "-"

\* C5: no token stream holds a single token for '>>'.
NoStereoCloseToken ==
  \A i \in 1..Len(tokens) :
    /\ tokens[i].kind # "STEREO_C"
    /\ tokens[i].value # <<">", ">">>

\* the 13 relation operators: literal text and token kind
RelationOperators ==
  { [lit |-> <<"-","-","|",">">>, kind |-> "INHERIT"],
    [lit |-> <<".",".","|",">">>, kind |-> "REALIZE"],
    [lit |-> <<"<","|","-","-">>, kind |-> "INHERIT_R"],
    [lit |-> <<"<","|",".",".">>, kind |-> "REALIZE_R"],
    [lit |-> <<"<",".",".">>,     kind |-> "DEPEND_R"],
    [lit |-> <<"o","-","-">>,     kind |-> "AGGR_R"],
    [lit |-> <<"*","-","-">>,     kind |-> "COMPOSE_R"],
    [lit |-> <<"-","-",">">>,     kind |-> "ASSOC_DIR"],
    [lit |-> <<".",".",">">>,     kind |-> "DEPEND"],
    [lit |-> <<"-","-","o">>,     kind |-> "AGGR"],
    [lit |-> <<"-","-","*">>,     kind |-> "COMPOSE"],
    [lit |-> <<"-","-","x">>,     kind |-> "RESTR"],
    [lit |-> <<"-","-">>,         kind |-> "ASSOC"] }

\* the relation operators whose text begins at position p, and the longest of them
OperatorsAt(p) == { op \in RelationOperators : StartsWith(source, p, op.lit) }
LongestAt(p) ==
  CHOOSE op \in OperatorsAt(p) : \A o \in OperatorsAt(p) : Len(o.lit) <= Len(op.lit)

\* C6: each relation operator literal lexes as exactly one token, with the literal
\* as value and the matching kind: a token that begins where operator literals begin
\* is the longest of them, never a shorter prefix, and a source that is one literal
\* lexes to that token and EOF.
RelationOperatorIsOneToken ==
  /\ \A i \in 1..Len(tokens) :
       (tokens[i].kind # "EOF" /\ OperatorsAt(tokens[i].start) # {})
         => /\ tokens[i].value = LongestAt(tokens[i].start).lit
            /\ tokens[i].kind = LongestAt(tokens[i].start).kind
  /\ \A op \in RelationOperators :
       (phase = "lexed" /\ source = op.lit)
         => /\ Len(tokens) = 2
            /\ tokens[1].kind = op.kind
            /\ tokens[1].value = op.lit
            /\ errors = <<>>

\* C6 witness: '--|>' was lexed, and came out as the one token INHERIT
RelationOperatorLexed ==
  /\ phase = "lexed"
  /\ source = <<"-","-","|",">">>
  /\ Len(tokens) = 2
  /\ tokens[1].kind = "INHERIT"

\* how many hex digits follow the '#' at position p, without a limit
RECURSIVE HexDigitsAfter(_, _)
HexDigitsAfter(p, n) ==
  IF IsHex(CharAt(source, p + 1 + n)) THEN HexDigitsAfter(p, n + 1) ELSE n

\* C7: a '#' lexes as COLOR if and only if exactly six hex digits follow it; with
\* fewer, or with a seventh hex digit, it lexes as the one-character HASH.
ColorIffExactlySixHex ==
  \A i \in 1..Len(tokens) :
    LET t == tokens[i] IN
    (t.kind # "EOF" /\ CharAt(source, t.start) = "#")
      => IF HexDigitsAfter(t.start, 0) = 6
         THEN t.kind = "COLOR" /\ t.value = Slice(source, t.start, t.start + 7)
         ELSE t.kind = "HASH" /\ t.end = t.start + 1

\* the type of the first member of the first entity of the first diagram parsed
FirstFieldType == result.program.diagrams[1].body[1].members[1].type

Parsed == result.program.kind = "Program"

\* C8: a field typed `string?` or `List<string>?` parses without error to a
\* NullableType around the whole base type.
NullableSuffixParses ==
  /\ (Parsed /\ source = SrcNullable) =>
       /\ result.errors = <<>>
       /\ FirstFieldType.kind = "NullableType"
       /\ FirstFieldType.inner.kind = "SimpleType"
       /\ FirstFieldType.inner.name = <<"s","t","r","i","n","g">>
  /\ (Parsed /\ source = SrcNullableGeneric) =>
       /\ result.errors = <<>>
       /\ FirstFieldType.kind = "NullableType"
       /\ FirstFieldType.inner.kind = "GenericType"
       /\ FirstFieldType.inner.base = <<"L","i","s","t">>

\* C9: a field typed `Map<string, List<int>>` parses with zero errors (none is ever
\* recorded) to a GenericType Map with two arguments, the second a GenericType.
NestedGenericParses ==
  source = SrcNestedGeneric =>
    /\ errors = <<>>
    /\ perrors = <<>>
    /\ Parsed =>
         /\ result.errors = <<>>
         /\ FirstFieldType.kind = "GenericType"
         /\ FirstFieldType.base = <<"M","a","p">>
         /\ Len(FirstFieldType.args) = 2
         /\ FirstFieldType.args[2].kind = "GenericType"

\* every EntityDecl of a body with the package it is in, nested packages included,
\* in source order
RECURSIVE EntityDecls(_, _)
EntityDecls(body, pkg) ==
  IF body = <<>> THEN <<>>
  ELSE (CASE body[1].kind = "EntityDecl"  -> <<[decl |-> body[1], pkg |-> pkg]>>
          [] body[1].kind = "PackageDecl" -> EntityDecls(body[1].body, body[1].name)
          [] OTHER -> <<>>)
       \o EntityDecls(Tail(body), pkg)

SelectIdx(seq, Keep(_)) ==
  LET F[i \in 0..Len(seq)] ==
        IF i = 0 THEN <<>> ELSE IF Keep(i) THEN Append(F[i - 1], seq[i]) ELSE F[i - 1]
  IN  F[Len(seq)]

\* the first declaration of each name, and the later ones
FirstDecls(ds) ==
  LET keep(i) == \A j \in 1..(i - 1) : ds[j].decl.name # ds[i].decl.name IN SelectIdx(ds, keep)
LaterDecls(ds) ==
  LET keep(i) == \E j \in 1..(i - 1) : ds[j].decl.name = ds[i].decl.name IN SelectIdx(ds, keep)

ErrorsOfRule(rule) ==
  LET keep(i) == semErrors[i].rule = rule IN SelectIdx(semErrors, keep)

\* an entity as its declaration made it, without what notes, styles and layout add
AsDeclared(e) ==
  [e EXCEPT !.note = Undefined, !.styles = EmptyMap, !.position = UndefinedNode]

Collected == phase = "analyze" /\ astep \in {"collected", "notes", "relations"}

\* the second-or-later declarations of diagrams 1..d, diagram by diagram
RECURSIVE LaterDeclsUpTo(_)
LaterDeclsUpTo(d) ==
  IF d = 0 THEN <<>>
  ELSE LaterDeclsUpTo(d - 1) \o LaterDecls(EntityDecls(program.diagrams[d].body, Undefined))

\* C10: within one diagram, nested packages included, SS-1 is reported exactly
\* once for each second-or-later EntityDecl of a name, and the entities map has one
\* entry per distinct name, built from the first declaration, in the order of the
\* first declarations.
DuplicateEntitiesKeepFirst ==
  Collected =>
    LET firsts == FirstDecls(EntityDecls(Diag.body, Undefined))
        laters == LaterDeclsUpTo(diagIdx)
        ss1    == ErrorsOfRule("SS-1")
    IN  /\ Len(entities) = Len(firsts)
        /\ \A i \in 1..Len(firsts) :
             /\ entities[i].name = firsts[i].decl.name
             /\ AsDeclared(entities[i]) = buildEntity(firsts[i].decl, firsts[i].pkg).entity
        /\ \A i, j \in 1..Len(entities) : entities[i].name = entities[j].name => i = j
        /\ Len(ss1) = Len(laters)
        /\ \A i \in 1..Len(laters) :
             /\ ss1[i].entity = laters[i].decl.name
             /\ ss1[i].line = laters[i].decl.span.line

\* C10 witness: a declaration inside a package repeated a name and was reported,
\* next to another entity that was kept
DuplicateInPackageReported ==
  /\ Collected
  /\ Len(entities) = 2
  /\ Len(ErrorsOfRule("SS-1")) = 1
  /\ \E i \in 1..Len(Diag.body) :
       /\ Diag.body[i].kind = "PackageDecl"
       /\ \E j \in 1..Len(Diag.body[i].body) :
            /\ Diag.body[i].body[j].kind = "EntityDecl"
            /\ Diag.body[i].body[j].span.line = ErrorsOfRule("SS-1")[1].line

\* every RelationDecl of a body, nested packages included, in source order
RECURSIVE RelationDecls(_)
RelationDecls(body) ==
  IF body = <<>> THEN <<>>
  ELSE (CASE body[1].kind = "RelationDecl" -> <<body[1]>>
          [] body[1].kind = "PackageDecl"  -> RelationDecls(body[1].body)
          [] OTHER -> <<>>)
       \o RelationDecls(Tail(body))

\* the relations rels are those declared in body: one each, in order, endpoints as written
RelationsAsDeclared(rels, body) ==
  LET ds == RelationDecls(body)
  IN  /\ Len(rels) = Len(ds)
      /\ \A i \in 1..Len(ds) : rels[i].from = ds[i].from /\ rels[i].to = ds[i].to

\* C11: the relations of an analysed diagram are exactly the RelationDecls of the
\* diagram, those inside packages included, one IOMRelation each, in declaration
\* order, with from and to as declared, whether or not the endpoints resolve.
RelationListComplete ==
  /\ (phase = "analyze" /\ astep = "relations") => RelationsAsDeclared(relations, Diag.body)
  /\ \A d \in 1..Len(iomDiagrams) :
       RelationsAsDeclared(iomDiagrams[d].relations, program.diagrams[d].body)

\* C11 witness: an analysed diagram keeps a relation to an undeclared entity next to
\* a relation declared inside a package
UnresolvedRelationKept ==
  /\ phase = "done"
  /\ Len(iomDiagrams[1].relations) = 2
  /\ \E i \in 1..2 : ~Has(iomDiagrams[1].entities, iomDiagrams[1].relations[i].to)
  /\ \E i \in 1..Len(program.diagrams[1].body) :
       /\ program.diagrams[1].body[i].kind = "PackageDecl"
       /\ RelationDecls(program.diagrams[1].body[i].body) # <<>>


\* the names of the entities declared anywhere in a body
DeclaredNames(body) ==
  LET ds == EntityDecls(body, Undefined) IN { ds[i].decl.name : i \in 1..Len(ds) }

\* [name, line] of the SS-3 errors a list of RelationDecls calls for: `from`, then `to`
RECURSIVE UnresolvedEndpoints(_, _)
UnresolvedEndpoints(ds, declared) ==
  IF ds = <<>> THEN <<>>
  ELSE (IF ds[1].from \notin declared
        THEN <<[name |-> ds[1].from, line |-> ds[1].span.line]>> ELSE <<>>)
       \o (IF ds[1].to \notin declared
           THEN <<[name |-> ds[1].to, line |-> ds[1].span.line]>> ELSE <<>>)
       \o UnresolvedEndpoints(Tail(ds), declared)

\* those of diagrams 1..d
RECURSIVE UnresolvedUpTo(_)
UnresolvedUpTo(d) ==
  IF d = 0 THEN <<>>
  ELSE UnresolvedUpTo(d - 1)
       \o UnresolvedEndpoints(RelationDecls(program.diagrams[d].body),
                              DeclaredNames(program.diagrams[d].body))

\* [name, line] of the SS-3 errors reported so far
ReportedSS3 ==
  LET ss3 == ErrorsOfRule("SS-3")
  IN  [i \in 1..Len(ss3) |-> [name |-> ss3[i].message[2], line |-> ss3[i].line]]

\* C12: for every RelationDecl SS-3 is reported once for `from` exactly when no
\* entity of that name is declared anywhere in the diagram, and once for `to` under
\* the same condition, wherever the declarations stand relative to the relation.
UnknownEndpointsReported ==
  /\ (phase = "analyze" /\ astep = "relations") => ReportedSS3 = UnresolvedUpTo(diagIdx)
  /\ (phase = "analyze" /\ astep = "begin") => ReportedSS3 = UnresolvedUpTo(diagIdx - 1)
  /\ phase = "done" => ReportedSS3 = UnresolvedUpTo(Len(program.diagrams))

\* C12 witness: one relation has two unknown endpoints and is reported twice, while
\* a relation written before the declaration of its `from` is not reported for it
BothEndpointsReported ==
  /\ phase = "analyze" /\ astep = "relations"
  /\ Len(ErrorsOfRule("SS-3")) = 3
  /\ \E i \in 1..Len(Diag.body) :
       /\ Diag.body[i].kind = "RelationDecl"
       /\ Diag.body[i].from = NameGhost /\ Diag.body[i].to = NameH
       /\ Cardinality({ k \in 1..Len(ReportedSS3) :
                          ReportedSS3[k].line = Diag.body[i].span.line }) = 2
  /\ \E i, j \in 1..Len(Diag.body) :
       /\ i < j
       /\ Diag.body[i].kind = "RelationDecl" /\ Diag.body[i].from = NameA
       /\ Diag.body[j].kind = "EntityDecl" /\ Diag.body[j].name = NameA
       /\ \A k \in 1..Len(ReportedSS3) : ReportedSS3[k].name # NameA

\* body with item i moved to place j
Moved(body, i, j) ==
  LET rest == [k \in 1..(Len(body) - 1) |-> IF k < i THEN body[k] ELSE body[k + 1]]
  IN  [k \in 1..Len(body) |->
         IF k < j THEN rest[k] ELSE IF k = j THEN body[i] ELSE rest[k - 1]]

\* the entities of a diagram with this body after the first pass and the sweep of notes
EntitiesWithNotes(body) ==
  LET st == collectItems(body, 1, Undefined,
                         [entities |-> <<>>, spans |-> <<>>, notes |-> <<>>,
                          packages |-> <<>>, errs |-> <<>>])
  IN  attachNotes(st.notes, 1, st.entities)

\* C13: the final note of an entity does not depend on where its declaration stands
\* among the notes: moving an EntityDecl to any other place of the body leaves the
\* note of every entity as it is.
NotesOrderIndependent ==
  (phase = "analyze" /\ astep = "notes") =>
    \A i, j \in 1..Len(Diag.body) :
      Diag.body[i].kind = "EntityDecl" =>
        LET moved == EntitiesWithNotes(Moved(Diag.body, i, j))
        IN  \A k \in 1..Len(entities) :
              Get(moved, entities[k].name).note = entities[k].note

\* the extends edges between the entities of a body (an entity is the first
\* declaration of its name)
ExtendsEdges(body) ==
  LET ds == FirstDecls(EntityDecls(body, Undefined))
  IN  { e \in DeclaredNames(body) \X DeclaredNames(body) :
          \E i \in 1..Len(ds) :
            ds[i].decl.name = e[1] /\ Includes(ds[i].decl.extendsClause, e[2]) }

\* the names reached from the set S in 1..k steps along the edges
RECURSIVE ReachedIn(_, _, _)
ReachedIn(edges, S, k) ==
  IF k = 0 THEN {}
  ELSE LET succ == { e[2] : e \in { d \in edges : d[1] \in S } }
       IN  succ \cup ReachedIn(edges, succ, k - 1)

HasExtendsCycle(body) ==
  \E n \in DeclaredNames(body) :
    n \in ReachedIn(ExtendsEdges(body), {n}, Cardinality(DeclaredNames(body)))

ChecksDone == phase = "analyze" /\ astep = "relations" /\ astep' = "begin"

\* C14: the checks of a diagram add at least one SS-6 error if and only if the
\* extends edges among its entities contain a cycle (a self-loop and an indirect
\* cycle included); an acyclic graph, a diamond included, adds none.
CycleReportedIffCyclic ==
  [][ChecksDone =>
       ((Len(ErrorsOfRule("SS-6")') > Len(ErrorsOfRule("SS-6"))) <=> HasExtendsCycle(Diag.body))]_vars

\* C14 witness: a diamond below a shared ancestor went through the checks, with no
\* SS-6 error
DiamondAccepted ==
  /\ phase = "done"
  /\ ErrorsOfRule("SS-6") = <<>>
  /\ Len(entities) = 4
  /\ Len(entities[4].extendsNames) = 2
  /\ \A k \in 1..2 :
       /\ Has(entities, entities[4].extendsNames[k])
       /\ Get(entities, entities[4].extendsNames[k]).extendsNames = <<entities[1].name>>

\* the number of places of a sequence that hold an element of S
CountIn(seq, S) == Cardinality({ i \in 1..Len(seq) : seq[i] \in S })

RECURSIVE SumOver(_, _)
SumOver(f, n) == IF n = 0 THEN 0 ELSE f[n] + SumOver(f, n - 1)

\* the declarations the analysed diagram keeps: the first of each name
KeptDecls == FirstDecls(EntityDecls(program.diagrams[1].body, Undefined))

Analysed == phase = "done" /\ Len(program.diagrams) = 1

\* the names of a clause that no entity of the diagram bears, counted with repeats
UnresolvedIn(clause) ==
  Len(clause) - CountIn(clause, DeclaredNames(program.diagrams[1].body))

\* C15: for every EntityDecl kept there is one SS-13 error per name of its extends
\* clause that is no declared entity and one SS-14 error per such name of its
\* implements clause, and neither when all the names resolve.
UnresolvedParentsReported ==
  Analysed =>
    /\ Len(ErrorsOfRule("SS-13")) =
         SumOver([i \in 1..Len(KeptDecls) |-> UnresolvedIn(KeptDecls[i].decl.extendsClause)],
                 Len(KeptDecls))
    /\ Len(ErrorsOfRule("SS-14")) =
         SumOver([i \in 1..Len(KeptDecls) |-> UnresolvedIn(KeptDecls[i].decl.implementsClause)],
                 Len(KeptDecls))

AbstractAndFinal(decl) ==
  Includes(decl.modifiers, TextAbstract) /\ Includes(decl.modifiers, TextFinal)

\* C16: an SS-11 error is reported for every entity whose modifiers hold both
\* `abstract` and `final`, and none for an entity with at most one of the two, an
\* interface included.
AbstractFinalReported ==
  Analysed =>
    /\ \A i \in 1..Len(KeptDecls) :
         AbstractAndFinal(KeptDecls[i].decl) <=>
           \E k \in 1..Len(semErrors) :
             semErrors[k].rule = "SS-11" /\ semErrors[k].entity = KeptDecls[i].decl.name
    /\ Len(ErrorsOfRule("SS-11")) =
         Cardinality({ i \in 1..Len(KeptDecls) : AbstractAndFinal(KeptDecls[i].decl) })

\* the methods of a declaration with a parameter name that occurs more than once
MethodsWithDuplicateParams(decl) ==
  { j \in 1..Len(decl.members) :
      /\ decl.members[j].kind = "MethodDecl"
      /\ \E a, b \in 1..Len(decl.members[j].params) :
           a # b /\ decl.members[j].params[a].name = decl.members[j].params[b].name }

\* C17: an SS-12 error is reported for every method whose parameter list holds a
\* name more than once, and none for the methods with distinct parameter names or
\* without parameters.
DuplicateParamsReported ==
  Analysed =>
    /\ (ErrorsOfRule("SS-12") = <<>>) <=>
         \A i \in 1..Len(KeptDecls) : MethodsWithDuplicateParams(KeptDecls[i].decl) = {}
    /\ Len(ErrorsOfRule("SS-12")) >=
         SumOver([i \in 1..Len(KeptDecls) |->
                    Cardinality(MethodsWithDuplicateParams(KeptDecls[i].decl))],
                 Len(KeptDecls))

MembersOfKind(decl, kinds) == { j \in 1..Len(decl.members) : decl.members[j].kind \in kinds }

\* a declaration breaks the member-level rule
Breaks(rule, decl) ==
  CASE rule = "SS-2" ->
         \E a, b \in MembersOfKind(decl, {"FieldDecl", "MethodDecl"}) :
           a # b /\ decl.members[a].name = decl.members[b].name
    [] rule = "SS-4" ->
         decl.entityKind = TextEnum /\ MembersOfKind(decl, {"EnumValueDecl"}) = {}
    [] rule = "SS-5" ->
         /\ decl.entityKind = TextInterface
         /\ \E a \in MembersOfKind(decl, {"FieldDecl"}) :
              decl.members[a].defaultValue # UndefinedNode
    [] rule = "SS-8" ->
         /\ decl.entityKind = TextEnum
         /\ \E a, b \in MembersOfKind(decl, {"EnumValueDecl"}) :
              a # b /\ decl.members[a].name = decl.members[b].name

MemberRules == {"SS-2", "SS-4", "SS-5", "SS-8"}

Reported(rule, name) ==
  \E k \in 1..Len(semErrors) : semErrors[k].rule = rule /\ semErrors[k].entity = name

AllDecls == EntityDecls(program.diagrams[1].body, Undefined)

\* C18: a second-or-later declaration of a name that is an enum without values is
\* reported as SS-1 and as SS-4, and the member-level rules SS-2, SS-4, SS-5 and
\* SS-8 are reported for every EntityDecl that breaks them, not only for the first
\* of its name.
EveryDeclarationChecked ==
  Analysed =>
    /\ \A i \in 1..Len(LaterDecls(AllDecls)) :
         Breaks("SS-4", LaterDecls(AllDecls)[i].decl) =>
           /\ Reported("SS-1", LaterDecls(AllDecls)[i].decl.name)
           /\ Reported("SS-4", LaterDecls(AllDecls)[i].decl.name)
    /\ \A rule \in MemberRules : \A i \in 1..Len(AllDecls) :
         Breaks(rule, AllDecls[i].decl) => Reported(rule, AllDecls[i].decl.name)

\* C18 as amended: the member-level rules are reported for a name exactly when its
\* first declaration breaks them, and SS-1 exactly when the name is declared again;
\* so SS-1 and SS-4 come together for a name declared more than once whose first
\* declaration is an enum without values.
FirstDeclarationChecked ==
  Analysed =>
    /\ \A rule \in MemberRules : \A n \in DeclaredNames(program.diagrams[1].body) :
         Reported(rule, n) <=>
           \E i \in 1..Len(KeptDecls) : KeptDecls[i].decl.name = n /\ Breaks(rule, KeptDecls[i].decl)
    /\ \A n \in DeclaredNames(program.diagrams[1].body) :
         Reported("SS-1", n) <=>
           \E i \in 1..Len(LaterDecls(AllDecls)) : LaterDecls(AllDecls)[i].decl.name = n

\* C18 witness: an enum without values was declared twice and the name is reported
\* as SS-1 and as SS-4, next to a later declaration whose members are not checked
DuplicateEmptyEnumReported ==
  /\ Analysed
  /\ Len(AllDecls) = 3
  /\ AllDecls[1].decl.name = AllDecls[2].decl.name
  /\ Breaks("SS-4", AllDecls[1].decl) /\ Breaks("SS-4", AllDecls[2].decl)
  /\ Reported("SS-1", AllDecls[1].decl.name) /\ Reported("SS-4", AllDecls[1].decl.name)
  /\ AllDecls[3].decl.name = AllDecls[1].decl.name
  /\ Breaks("SS-2", AllDecls[3].decl) /\ ~Reported("SS-2", AllDecls[3].decl.name)

AllEntityKinds ==
  { TextClass, TextInterface, TextEnum, TextActor, TextUsecase, TextComponent, TextNode }

\* the entity kinds a diagram kind admits, for the diagram kinds the rule is stated for
Admits ==
  (TextClass :> { TextClass, TextInterface, TextEnum })
  @@ (TextUsecase :> { TextActor, TextUsecase })
  @@ (TextDeployment :> { TextComponent, TextNode })
  @@ (TextFlow :> AllEntityKinds)

\* the names of the kept declarations from place i on whose kind is not in allowed
RECURSIVE Offending(_, _)
Offending(i, allowed) ==
  IF i > Len(KeptDecls) THEN <<>>
  ELSE (IF KeptDecls[i].decl.entityKind \notin allowed
        THEN <<KeptDecls[i].decl.name>> ELSE <<>>)
       \o Offending(i + 1, allowed)

\* C19: SS-9 is reported once for each entity whose kind is outside the set its
\* diagram kind admits, and for no other entity: class admits class, interface and
\* enum, usecase admits actor and usecase, deployment admits component and node, and
\* flow admits every kind.
KindCompatibilityReported ==
  (Analysed /\ program.diagrams[1].diagramKind \in DOMAIN Admits) =>
    [i \in 1..Len(ErrorsOfRule("SS-9")) |-> ErrorsOfRule("SS-9")[i].entity]
      = Offending(1, Admits[program.diagrams[1].diagramKind])

\* C19 witness: a usecase diagram with an actor and a class was analysed and the
\* class alone is reported
ClassInUsecaseReported ==
  /\ Analysed
  /\ program.diagrams[1].diagramKind = TextUsecase
  /\ Len(entities) = 2
  /\ \E i \in 1..2 : entities[i].kind = TextActor
  /\ \E i \in 1..2 : entities[i].kind = TextClass
  /\ Len(ErrorsOfRule("SS-9")) = 1
  /\ Get(entities, ErrorsOfRule("SS-9")[1].entity).kind = TextClass

ErrorsAbout(rule, name) ==
  Cardinality({ k \in 1..Len(semErrors) :
                  semErrors[k].rule = rule /\ semErrors[k].entity = name })

\* the names of the values of an enum declaration, in order
ValueNames(decl) ==
  LET Vals[j \in 0..Len(decl.members)] ==
        IF j = 0 THEN <<>>
        ELSE IF decl.members[j].kind = "EnumValueDecl"
        THEN Append(Vals[j - 1], decl.members[j].name) ELSE Vals[j - 1]
  IN  Vals[Len(decl.members)]

\* C20: for every enum the number of SS-8 errors is the number of its values minus
\* the number of its distinct values: one for `enum E { X X }`, none for an enum
\* with pairwise distinct values.
DuplicateValuesCounted ==
  Analysed =>
    \A i \in 1..Len(KeptDecls) :
      KeptDecls[i].decl.entityKind = TextEnum =>
        ErrorsAbout("SS-8", KeptDecls[i].decl.name)
          = Len(ValueNames(KeptDecls[i].decl))
            - Cardinality({ ValueNames(KeptDecls[i].decl)[j] :
                              j \in 1..Len(ValueNames(KeptDecls[i].decl)) })

\* C20 witness: an enum with two values of one name, an enum with four values of two
\* names and an enum with distinct values were analysed, with one, two and no SS-8
\* error
DuplicateValuesSeen ==
  /\ Analysed
  /\ Len(entities) = 3
  /\ \A i \in 1..3 : entities[i].kind = TextEnum
  /\ \E i \in 1..3 : Len(entities[i].enumValues) = 2 /\ ErrorsAbout("SS-8", entities[i].name) = 1
  /\ \E i \in 1..3 : Len(entities[i].enumValues) = 4 /\ ErrorsAbout("SS-8", entities[i].name) = 2
  /\ \E i \in 1..3 : Len(entities[i].enumValues) = 2 /\ ErrorsAbout("SS-8", entities[i].name) = 0

\* analyze on a program that holds the diagram diag alone: [diagram, errors]
AnalysedAlone(diag) ==
  LET st   == collectItems(diag.body, 1, Undefined,
                           [entities |-> <<>>, spans |-> <<>>, notes |-> <<>>,
                            packages |-> <<>>, errs |-> <<>>])
      ents == attachNotes(st.notes, 1, st.entities)
      rl   == collectRelations(diag.body, 1, ents, [relations |-> <<>>, errs |-> <<>>])
  IN  [diagram |-> [name |-> diag.name, kind |-> diag.diagramKind, entities |-> ents,
                    relations |-> rl.relations, packages |-> st.packages,
                    notes |-> st.notes],
       errors |-> st.errs \o rl.errs
                  \o CheckSS4(ents, st.spans)
                  \o CheckSS5(ents, st.spans)
                  \o CheckSS6(ents, st.spans, 1, {})
                  \o checkStyleTargets(diag.body, 1, ents)
                  \o CheckSS8(ents, st.spans)
                  \o CheckSS9(ents, st.spans, diag.diagramKind)
                  \o checkLayoutTargets(diag.body, 1, ents)]

\* the errors of diagrams 1..d, each analysed alone, one list after the other
RECURSIVE ErrorsAloneUpTo(_)
ErrorsAloneUpTo(d) ==
  IF d = 0 THEN <<>>
  ELSE ErrorsAloneUpTo(d - 1) \o AnalysedAlone(program.diagrams[d]).errors

\* C21: diagrams are analysed independently: the i-th diagram of the result is the
\* diagram got by analysing the i-th DiagramDecl alone, and the error list is the
\* per-diagram error lists one after the other, in diagram order.
DiagramsIndependent ==
  /\ \A d \in 1..Len(iomDiagrams) :
       iomDiagrams[d] = AnalysedAlone(program.diagrams[d]).diagram
  /\ phase = "done" => semErrors = ErrorsAloneUpTo(Len(program.diagrams))

\* C21 witness: two diagrams were analysed; the first declares A, the second has a
\* relation from A without declaring it, and A is reported as unknown there
SecondDiagramStandsAlone ==
  /\ phase = "done"
  /\ Len(iomDiagrams) = 2
  /\ Has(iomDiagrams[1].entities, NameA)
  /\ ~Has(iomDiagrams[2].entities, NameA)
  /\ Len(iomDiagrams[2].relations) = 1
  /\ iomDiagrams[2].relations[1].from = NameA
  /\ \E k \in 1..Len(semErrors) :
       semErrors[k].rule = "SS-3" /\ semErrors[k].message[2] = NameA


\* the text of the type of the field in a source `diagram D:class{class C{+f:<type>}}`
FieldTypeText == SubSeq(source, 28, Len(source) - 2)

\* C22: type expressions round-trip: parsing a type written in canonical form and
\* applying typeToString to the TypeExpr gives back the text as written.
TypeTextRoundTrips ==
  (Parsed /\ source \in {SrcNullable, SrcNullableGeneric, SrcNestedGeneric}) =>
    typeToString(FirstFieldType) = FieldTypeText

\* the suspended call and the running call, by number
CallFrame(c) == IF c = calls.running THEN Frame ELSE calls.suspended[1]

DroppedEntities ==
  LET d == dropped[1] IN
  IF d.diagram > Len(iomDiagrams) THEN <<>>
  ELSE SelectSeq(iomDiagrams[d.diagram].entities, LAMBDA e : e.name = d.name)

\* C24: after an entity N of a diagram is dropped at (x, y), parsing and
\* analysing the rewritten source yields, in that diagram, N at (x, y).
DropTakesEffect ==
  (dropped # <<>> /\ phase = "done") =>
    /\ Len(DroppedEntities) = 1
    /\ DroppedEntities[1].position =
         [x |-> [nan |-> FALSE, neg |-> dropped[1].x < 0,
                 whole |-> IF dropped[1].x < 0 THEN 0 - dropped[1].x ELSE dropped[1].x,
                 frac |-> <<>>],
          y |-> [nan |-> FALSE, neg |-> dropped[1].y < 0,
                 whole |-> IF dropped[1].y < 0 THEN 0 - dropped[1].y ELSE dropped[1].y,
                 frac |-> <<>>]]

\* the token kinds a caller may expect where the parser stands
ExpectableKinds == {tokens[i].kind : i \in 1..Len(tokens)} \cup {"IDENT", "RBRACE", "EOF"}

\* expect(kind) where the parser stands did as described
ExpectedAsDescribed(kind) ==
  LET t == Peek(ppos, 0)
      r == Expect(ppos, perrors, kind)
  IN  /\ r.val = t
      /\ t.kind = kind =>
           /\ r.errs = perrors
           /\ r.pos = IF kind = "EOF" THEN ppos ELSE ppos + 1
      /\ t.kind # kind =>
           /\ r.pos = ppos
           /\ Len(r.errs) = Len(perrors) + 1
           /\ SubSeq(r.errs, 1, Len(perrors)) = perrors
           /\ r.errs[Len(r.errs)].line = t.line
           /\ r.errs[Len(r.errs)].col = t.col
           /\ r.errs[Len(r.errs)].pos = t.start

\* C25: Parser.expect(kind) consumes the current token and records nothing when
\* its kind is `kind` (the position stays only at EOF); otherwise it records
\* exactly one ParseError at the current token's line, col and start, leaves the
\* position alone and returns the unexpected token.
ExpectConsumesOrReports ==
  phase \in {"parse", "parsed"} => \A kind \in ExpectableKinds : ExpectedAsDescribed(kind)

\* the parser stands on a token that was expected to be of another kind, with
\* the error recorded at that token
MismatchRecorded ==
  /\ phase = "parse"
  /\ perrors # <<>>
  /\ perrors[Len(perrors)].message[1] = "Expected"
  /\ perrors[Len(perrors)].message[4] = Peek(ppos, 0).kind
  /\ perrors[Len(perrors)].pos = Peek(ppos, 0).start
  /\ ~At(ppos, "EOF")

\* the names that lie on a cycle of the extends edges of a body
OnExtendsCycle(body) ==
  { n \in DeclaredNames(body) :
      n \in ReachedIn(ExtendsEdges(body), {n}, Cardinality(DeclaredNames(body))) }

\* the cyclic components: the names on a cycle, grouped by reaching each other
CyclicComponents(body) ==
  LET Reach(n) == ReachedIn(ExtendsEdges(body), {n}, Cardinality(DeclaredNames(body)))
  IN  { { m \in OnExtendsCycle(body) : m \in Reach(n) /\ n \in Reach(m) } :
          n \in OnExtendsCycle(body) }

\* C26: SS-6 is reported once per cyclic component of the extends graph, whatever
\* the length of the cycle, and never names an entity that only inherits from a
\* cycle without being on one.
CycleReportedOnce ==
  Analysed =>
    LET body == program.diagrams[1].body
        ss6  == ErrorsOfRule("SS-6")
    IN  /\ Len(ss6) = Cardinality(CyclicComponents(body))
        /\ \A i \in 1..Len(ss6) : ss6[i].entity \in OnExtendsCycle(body)

\* the span of a field covers its tokens and no other: it starts at the first of
\* the visibility, the modifiers and the name, and ends with the type or the
\* default value (or the `;` that closes the member)
FieldSpanExact(m) ==
  LET last == IF m.defaultValue.kind # "undefined" THEN m.defaultValue.span.end
              ELSE m.type.span.end
  IN  /\ m.span.end >= last
      /\ \A k \in 1..Len(tokens) :
           /\ (tokens[k].start >= last /\ tokens[k].end <= m.span.end) => tokens[k].kind = "SEMI"
           /\ (k > 1 /\ tokens[k].start = m.span.start) =>
                tokens[k - 1].kind \notin {"PLUS", "MINUS", "HASH", "TILDE"} \cup ModifierKinds

\* the span of a note ends where its last token ends: the text, or the entity
\* after `on`
NoteSpanExact(n) ==
  \A k \in 1..Len(tokens) :
    (tokens[k].start = n.span.start /\ k + 3 <= Len(tokens)) =>
      n.span.end = IF tokens[k + 2].kind = "on" THEN tokens[k + 3].end ELSE tokens[k + 1].end

\* C27: the span of an AST node covers exactly the tokens the node was made from:
\* it starts at the start of the first and ends at the end of the last, and does
\* not reach into what follows (stated for the fields and notes of diagram bodies).
SpansCoverTheirTokens ==
  Parsed =>
    \A d \in 1..Len(result.program.diagrams) :
      LET body == result.program.diagrams[d].body IN
      \A i \in 1..Len(body) :
        /\ body[i].kind = "EntityDecl" =>
             \A k \in 1..Len(body[i].members) :
               body[i].members[k].kind = "FieldDecl" => FieldSpanExact(body[i].members[k])
        /\ body[i].kind = "NoteDecl" => NoteSpanExact(body[i])

\* an error of the rule was reported for the item, naming `name`
ReportedAt(rule, item, name) ==
  \E k \in 1..Len(semErrors) :
    /\ semErrors[k].rule = rule
    /\ semErrors[k].message[2] = name
    /\ semErrors[k].line = item.span.line

\* C28: in a diagram every LayoutAnnotation on E either is reported as SS-10 or,
\* being the last one on E, gives E its position, and every StyleDecl on E either
\* is reported as SS-7 or has its keys in E.styles, wherever in the body E is
\* declared.
AnnotationsApplyInAnyOrder ==
  Analysed =>
    LET body == program.diagrams[1].body
        ents == iomDiagrams[1].entities
    IN  \A i \in 1..Len(body) :
          /\ body[i].kind = "LayoutAnnotation" =>
               \/ ReportedAt("SS-10", body[i], body[i].entity)
               \/ /\ Has(ents, body[i].entity)
                  /\ (\A j \in (i + 1)..Len(body) :
                        ~(body[j].kind = "LayoutAnnotation" /\ body[j].entity = body[i].entity))
                       => Get(ents, body[i].entity).position = [x |-> body[i].x, y |-> body[i].y]
          /\ body[i].kind = "StyleDecl" =>
               \/ ReportedAt("SS-7", body[i], body[i].target)
               \/ /\ Has(ents, body[i].target)
                  /\ \A key \in DOMAIN body[i].styles :
                       key \in DOMAIN Get(ents, body[i].target).styles

\* the offsets of the newline characters of the source that lie before offset p
NewlinesBefore(p) == { k \in 0..(Len(source) - 1) : k < p /\ source[k + 1] = "\n" }

\* the offset at which the line of offset p starts
LineStartOf(p) ==
  IF NewlinesBefore(p) = {} THEN 0
  ELSE 1 + CHOOSE k \in NewlinesBefore(p) : \A j \in NewlinesBefore(p) : j <= k

\* C29: every token of lex has line = 1 + the number of newlines of the source
\* before its start, and col = the 1-based offset of its start within that line,
\* also after a block comment or a string literal that contains newlines.
TokenPositionsExact ==
  \A i \in 1..Len(tokens) :
    /\ tokens[i].line = 1 + Cardinality(NewlinesBefore(tokens[i].start))
    /\ tokens[i].col = tokens[i].start - LineStartOf(tokens[i].start) + 1

\* C30: the depth-first walk of SS-6 terminates on every extends graph: from
\* every entity hasCircularInheritance returns after finitely many calls, and no
\* chain of calls is longer than the number of entities plus one, an entity
\* being met a second time only by the call that returns true.
WalkTerminates ==
  \A i \in 1..Len(entities) :
    LET w == Walk(entities, entities[i].name, {}, 1)
    IN  /\ ~w.cut
        /\ w.deepest <= Len(entities) + 1
        /\ w.found = hasCircularInheritance(entities, entities[i].name, {})

\* a cycle through three entities was walked all the way round: the fourth call
\* met the first entity again and returned true
CycleOfThreeWalked ==
  /\ phase = "done"
  /\ Len(entities) = 3
  /\ \A i \in 1..3 :
       LET w == Walk(entities, entities[i].name, {}, 1)
       IN  w.found /\ w.deepest = 4 /\ w.calls = 4
  /\ ErrorsOfRule("SS-6") # <<>>
====
